---- MODULE Spec2Model ----
(***************************************************************************)
(* Auto Parts Tracker, networked variant: the record store (schema.sql),   *)
(* the server actions (actions/ro-actions.ts) and the order page           *)
(* (components/RODetails.tsx, second component) with its offline queue.    *)
(***************************************************************************)
EXTENDS Integers, Sequences, FiniteSets, TLC

\* ------------------------------------------------------------------ bounds
MaxScans == 2        \* handleScan invocations in one behaviour
MaxSyncs == 1        \* handleSync invocations
MaxUpdates == 1      \* handleUpdateQty invocations
MaxDeletes == 1      \* handleDelete invocations
MaxFinalizes == 2    \* handleFinalize invocations
MaxFailures == 2     \* connectivity exceptions and store errors (SpecQueue, SpecDrain)
MaxInFlight == 2     \* handler invocations awaiting a server action at one time
MaxStoreErrors == 1  \* store errors (SpecStore, SpecSnapshot)
MaxSequentialScans == 3  \* scans made one after the other (SpecSequential)
MaxSequentialFailures == 3  \* connectivity exceptions and store errors (SpecSequential)

Barcodes == {"A1", "B2"}
Sessions == {"s1", "s2"}        \* browser sessions (devices) showing the order page
OrderId == "o1"
OtherOrderId == "o2"            \* a second order, opened in the same browser
OtherRoNumber == "R200"
MissingOrderId == "o9"          \* an id no order has
RoNumber == "R100"
MaxStarts == 1                  \* times the scanner is turned on
MaxFrames == 2                  \* video frames drawn and decoded
MaxCameraFailures == 1          \* getUserMedia calls that reject
MaxCvThrows == 1                \* OpenCV transforms that throw
MaxCreates == 2                 \* createRO calls
MaxKeys == 4                    \* keydown events on the window
MaxPageScans == 2               \* scanPart calls of the local order page
\* order numbers typed in the create form, as sequences of characters
RoNumbers == {<<>>, <<" ">>, <<"r">>, <<"R">>, <<" ", "r">>, <<"r", "1">>}
EditQtys == {0, 3}
\* texts typed in the manual entry input, as sequences of characters
ManualTexts == {<<>>, <<" ", " ">>, <<"r", "1">>, <<" ", "r", "1", " ">>,
                <<"r", "1", "r">>, <<" ", "r", "1", "r">>, <<"r", " ", "1">>}
\* keys pressed on the window
Keys == {"Enter", "Shift", "r", "1"}
\* Date.now() when the page is opened, and the time between two key events
Epoch == 1000
Gaps == {100, 101}
\* document.activeElement.tagName
Tags == {"BODY", "BUTTON", "INPUT", "TEXTAREA"}
\* symbols the camera reads on the local page: a label can also be typed by hand
Labels == {"A1", "R1R"}
\* the decode stages, in the order of processFrame
StageName == <<"Normal", "Grayscale", "Contrast", "Threshold">>
Stages == 1..4
\* video frames, each given by the stages at which its symbol can be decoded
FrameKinds == {{}, {4}, {2, 3}, {1}}
CameraError == "Camera access denied or failed."              \* values typed in the quantity input

VARIABLES
    ro,                 \* table ro
    ro_scanned_parts,   \* table ro_scanned_parts
    ro_final_entries,   \* table ro_final_entries
    ro_final_parts,     \* table ro_final_parts
    nextPartId,         \* uuid_generate_v4() for ro_scanned_parts.id
    pendingScans,       \* React state pendingScans of each session
    localStorage,       \* localStorage["pending_scans_" + ro.id] of each device
    view,               \* props ro / initialParts as last rendered for each session
    scanner,            \* the Scanner component: state, refs, camera, frames
    page,               \* the local order page: manual entry, key buffer, listener
    tasks,              \* handler invocations that are awaiting a server action
    budget,             \* remaining invocations of each kind
    captured,           \* history: handleScan invocations per barcode
    written,            \* history: increments scanPart applied to the store per barcode
    queued,             \* history: scans appended to the queue per barcode
    repaid              \* history: store writes made on behalf of queued scans

dbVars == <<ro, ro_scanned_parts, ro_final_entries, ro_final_parts, nextPartId>>
clientVars == <<pendingScans, localStorage, view, scanner, page>>
histVars == <<captured, written, queued, repaid>>
vars == <<ro, ro_scanned_parts, ro_final_entries, ro_final_parts, nextPartId,
          pendingScans, localStorage, view, scanner, page, tasks, budget,
          captured, written, queued, repaid>>

\* ----------------------------------------------------------------- helpers
NoRow == [id |-> 0, quantity |-> 0]
ZeroQty == [b \in Barcodes |-> 0]

RECURSIVE Count(_, _)
Count(q, b) ==
    IF q = <<>> THEN 0
    ELSE (IF Head(q) = b THEN 1 ELSE 0) + Count(Tail(q), b)

StatusOf(roId) ==
    IF \E r \in ro : r.id = roId
    THEN (CHOOSE r \in ro : r.id = roId).status
    ELSE "none"

\* history only: the order is finalized at the moment scanPart is called
Finalized(roId) == StatusOf(roId) = "finalized"

PartsOf(roId) == {p \in ro_scanned_parts : p.ro_id = roId}

QtyOf(roId, b) ==
    IF \E p \in PartsOf(roId) : p.barcode_value = b
    THEN (CHOOSE p \in PartsOf(roId) : p.barcode_value = b).quantity
    ELSE 0

EntriesOf(roId) == {e \in ro_final_entries : e.ro_id = roId}

LinesOf(entryId) ==
    {[barcode_value |-> l.barcode_value, quantity |-> l.quantity] :
        l \in {x \in ro_final_parts : x.final_entry_id = entryId}}

\* a copy of the parts that drops their quantities
LiveLinesOnes(roId) ==
    {[barcode_value |-> p.barcode_value, quantity |-> 1] : p \in PartsOf(roId)}

\* select barcode_value, quantity from ro_scanned_parts where ro_id = roId
LiveLines(roId) ==
    {[barcode_value |-> p.barcode_value, quantity |-> p.quantity] : p \in PartsOf(roId)}

\* page.tsx: getRO + getScannedParts feed the props of RODetails
CurrentView(v) ==
    [v EXCEPT !.status = StatusOf(v.id), !.parts = {p.id : p \in PartsOf(v.id)}]

\* router.refresh(): the page is rendered again from the store
Refreshed(s) == [view EXCEPT ![s] = CurrentView(view[s])]

\* useTransition: isPending while an async transition of the session runs
isPending(s) ==
    \E t \in tasks : t.session = s /\ t.handler \in {"scan", "update", "delete", "finalize"}

isFinalized(s) == view[s].status = "finalized"

BlankTask ==
    [copy |-> 0, handler |-> "", session |-> "", ro_id |-> "", ro_number |-> "",
     pc |-> "", barcode |-> "",
     id |-> 0, qty |-> 0, closure |-> <<>>, i |-> 0, failed |-> <<>>,
     existing |-> NoRow, entry |-> FALSE, lines |-> {}, result |-> "",
     applied |-> FALSE, q0 |-> ZeroQty, alone |-> TRUE,
     late |-> FALSE, log |-> <<>>, via |-> ""]

\* handler invocations form a multiset: `copy` tells apart invocations that are
\* otherwise equal, and is the smallest number that does so
Place(ts, t) ==
    LET n == CHOOSE k \in 1..(Cardinality(ts) + 1) :
                 /\ [t EXCEPT !.copy = k] \notin ts
                 /\ \A m \in 1..(k - 1) : [t EXCEPT !.copy = m] \in ts
    IN  ts \cup {[t EXCEPT !.copy = n]}

RECURSIVE PlaceAll(_, _)
PlaceAll(todo, acc) ==
    IF todo = {} THEN acc
    ELSE LET t == CHOOSE x \in todo : TRUE
         IN  PlaceAll(todo \ {t}, Place(acc, t))

Bump(f, b) ==
    [x \in DOMAIN f \cup {b} |->
        (IF x \in DOMAIN f THEN f[x] ELSE 0) + (IF x = b THEN 1 ELSE 0)]

\* history only: a store write overlaps every running drain but the writer's own
RECURSIVE Disturb(_, _)
Disturb(todo, acc) ==
    IF todo = {} THEN acc
    ELSE LET t == CHOOSE x \in todo : TRUE
         IN  Disturb(todo \ {t},
                     Place(acc, IF t.handler = "sync" THEN [t EXCEPT !.alone = FALSE] ELSE t))

\* ------------------------------------------------------- record store (SQL)
\* a table without the unique constraint
UniqueViolationNever(rows, roId, b) == FALSE

\* ro_scanned_parts: unique(ro_id, barcode_value)
UniqueViolation(rows, roId, b) ==
    \E p \in rows : p.ro_id = roId /\ p.barcode_value = b

\* a repeat scan that overwrites the quantity instead of incrementing it
NextQuantityOverwrite(existing) == 1

\* scanPart: the quantity written by the update branch
NextQuantity(existing) == existing.quantity + 1

\* scanPart: .update({quantity: existing.quantity + 1}).eq("id", existing.id)
UpdateRows(rows, existing) ==
    {IF p.id = existing.id THEN [p EXCEPT !.quantity = NextQuantity(existing)] ELSE p : p \in rows}

\* a first scan that stores quantity 0
InsertRowZero(rows, roId, b, newId) ==
    rows \cup {[id |-> newId, ro_id |-> roId, barcode_value |-> b, quantity |-> 0]}

\* scanPart: .insert({ro_id, barcode_value, quantity: 1})
InsertRow(rows, roId, b, newId) ==
    rows \cup {[id |-> newId, ro_id |-> roId, barcode_value |-> b, quantity |-> 1]}

\* updatePartQuantity: .update({quantity}).eq("id", scanId)
SetQuantity(rows, scanId, quantity) ==
    {IF p.id = scanId THEN [p EXCEPT !.quantity = quantity] ELSE p : p \in rows}

\* deletePart: .delete().eq("id", scanId)
DeleteRow(rows, scanId) == {p \in rows : p.id # scanId}

\* a header id that is not fresh: a later finalization lands on the first snapshot
NewEntryIdReused(entries) == 1

\* ro_final_entries.id default uuid_generate_v4(): a value no header holds
NewEntryId(entries) == Cardinality(entries) + 1

\* now(): advances with every finalization that commits
Now == Cardinality(ro_final_entries) + 1

\* finalization run as separate statements outside a transaction: the header stays
RollbackEntriesKept(entries, header) == entries \cup header

\* finalize_ro raises or fails: the transaction rolls back, its header is discarded
RollbackEntries(entries, header) == entries

\* finalize_ro raises or fails: the transaction rolls back, its lines are discarded
RollbackLines(lines, copied) == lines

\* ------------------------------------------------- order page: handlers
Start(t) == Cardinality(tasks) < budget.inflight /\ tasks' = Place(tasks, t)
Finish(t) == tasks' = PlaceAll(tasks \ {t}, {})
Become(t, u) == tasks' = Place(PlaceAll(tasks \ {t}, {}), u)
Wrote(t, u) == tasks' = Place(Disturb(tasks \ {t}, {}), u)

\* handleScan(barcode): called by the Scanner, which is rendered when !isFinalized;
\* the handler closes over the pendingScans of the render that created it
HandleScan(s, b) ==
    /\ budget.scan > 0
    /\ ~isFinalized(s)
    /\ Start([BlankTask EXCEPT !.handler = "scan", !.session = s,
                !.ro_id = view[s].id, !.pc = "status", !.barcode = b,
                !.closure = pendingScans[s], !.late = Finalized(view[s].id)])
    /\ budget' = [budget EXCEPT !.scan = @ - 1]
    /\ captured' = Bump(captured, b)
    /\ UNCHANGED <<dbVars, clientVars, written, queued, repaid>>

\* handleSync(): the Sync button is rendered when pendingScans is not empty and
\* is disabled while isPending
HandleSync(s) ==
    /\ budget.sync > 0
    /\ pendingScans[s] # <<>>
    /\ ~isPending(s)
    /\ Start([BlankTask EXCEPT !.handler = "sync", !.session = s,
                !.ro_id = view[s].id, !.pc = "status",
                !.closure = pendingScans[s], !.i = 1, !.barcode = pendingScans[s][1],
                !.q0 = [b \in Barcodes |-> QtyOf(view[s].id, b)],
                !.late = Finalized(view[s].id)])
    /\ budget' = [budget EXCEPT !.sync = @ - 1]
    /\ UNCHANGED <<dbVars, clientVars, histVars>>

\* handleUpdateQty(id): Edit/Save are rendered per listed part when !isFinalized
HandleUpdateQty(s, id, q) ==
    /\ budget.update > 0
    /\ ~isFinalized(s)
    /\ id \in view[s].parts
    /\ ~(q < 1)
    /\ Start([BlankTask EXCEPT !.handler = "update", !.session = s,
                !.ro_id = view[s].id, !.pc = "exec", !.id = id, !.qty = q])
    /\ budget' = [budget EXCEPT !.update = @ - 1]
    /\ UNCHANGED <<dbVars, clientVars, histVars>>

\* handleDelete(id): Delete is rendered per listed part when !isFinalized
HandleDelete(s, id) ==
    /\ budget.delete > 0
    /\ ~isFinalized(s)
    /\ id \in view[s].parts
    /\ Start([BlankTask EXCEPT !.handler = "delete", !.session = s,
                !.ro_id = view[s].id, !.pc = "exec", !.id = id])
    /\ budget' = [budget EXCEPT !.delete = @ - 1]
    /\ UNCHANGED <<dbVars, clientVars, histVars>>

\* handleFinalize(): the button is rendered when !isFinalized && parts.length > 0
\* and is disabled while isPending; pending scans reject before finalizeRO is called
HandleFinalize(s) ==
    /\ budget.finalize > 0
    /\ ~isFinalized(s)
    /\ view[s].parts # {}
    /\ ~isPending(s)
    /\ ~(Len(pendingScans[s]) > 0)
    /\ Start([BlankTask EXCEPT !.handler = "finalize", !.session = s,
                !.ro_id = view[s].id, !.ro_number = view[s].ro_number,
                !.pc = "status"])
    /\ budget' = [budget EXCEPT !.finalize = @ - 1]
    /\ UNCHANGED <<dbVars, clientVars, histVars>>

\* finalizeRO(roId, roNumber), an exported server action, is called from the
\* browser of session s with arguments that need not be those of one order
FinalizeROCall(s, roId, roNumber) ==
    /\ budget.finalize > 0
    /\ ~isPending(s)
    /\ Start([BlankTask EXCEPT !.handler = "finalize", !.session = s,
                !.ro_id = roId, !.ro_number = roNumber, !.pc = "status"])
    /\ budget' = [budget EXCEPT !.finalize = @ - 1]
    /\ UNCHANGED <<dbVars, clientVars, histVars>>

\* handleFinalize() with pending scans: the error is shown and finalizeRO is not called
HandleFinalizeRejected(s) ==
    /\ budget.finalize > 0
    /\ ~isFinalized(s)
    /\ view[s].parts # {}
    /\ ~isPending(s)
    /\ Len(pendingScans[s]) > 0
    /\ budget' = [budget EXCEPT !.finalize = @ - 1]
    /\ UNCHANGED <<dbVars, clientVars, tasks, histVars>>

\* the page is opened or reloaded while the session awaits nothing: page.tsx reads
\* the order and its parts, the mount effect loads the persisted pending scans
Mount(s) ==
    /\ \A t \in tasks : t.session # s
    /\ view' = Refreshed(s)
    /\ pendingScans' = [pendingScans EXCEPT ![s] = localStorage[s]]
    /\ UNCHANGED <<dbVars, localStorage, scanner, page, tasks, budget, histVars>>

\* --------------------------------------------- server actions, step by step
\* a status check that lets every order through
IsDraftAlways(status) == TRUE

\* scanPart / finalizeRO: ro.status !== "draft" is refused
IsDraft(status) == status = "draft"

\* scanPart / finalizeRO: select status from ro where id = roId
CheckDraft(t) ==
    /\ t.pc = "status"
    /\ IF IsDraft(StatusOf(t.ro_id))
       THEN Become(t, [t EXCEPT !.pc = IF t.handler = "finalize" THEN "parts" ELSE "fetch"])
       ELSE Become(t, [t EXCEPT !.pc = "resp", !.result = "err"])
    /\ UNCHANGED <<dbVars, clientVars, budget, histVars>>

\* scanPart: select * from ro_scanned_parts where ro_id and barcode_value, .single()
ScanFetch(t) ==
    /\ t.pc = "fetch"
    /\ LET hit == {p \in ro_scanned_parts : p.ro_id = t.ro_id /\ p.barcode_value = t.barcode}
       IN  CASE Cardinality(hit) = 0 -> Become(t, [t EXCEPT !.pc = "write", !.existing = NoRow])
             [] Cardinality(hit) = 1 ->
                    LET p == CHOOSE x \in hit : TRUE
                    IN  Become(t, [t EXCEPT !.pc = "write",
                                     !.existing = [id |-> p.id, quantity |-> p.quantity]])
             [] OTHER -> Become(t, [t EXCEPT !.pc = "resp", !.result = "err"])
    /\ UNCHANGED <<dbVars, clientVars, budget, histVars>>

\* scanPart: update the row that was read, or insert a new one
ScanWrite(t) ==
    /\ t.pc = "write"
    /\ LET ok == IF t.existing # NoRow
                 THEN \E p \in ro_scanned_parts : p.id = t.existing.id
                 ELSE ~UniqueViolation(ro_scanned_parts, t.ro_id, t.barcode)
       IN  IF ok
           THEN /\ ro_scanned_parts' =
                      IF t.existing # NoRow
                      THEN UpdateRows(ro_scanned_parts, t.existing)
                      ELSE InsertRow(ro_scanned_parts, t.ro_id, t.barcode, nextPartId)
                /\ nextPartId' = IF t.existing # NoRow THEN nextPartId ELSE nextPartId + 1
                /\ Wrote(t, [t EXCEPT !.pc = "resp", !.result = "ok", !.applied = TRUE,
                                         !.existing = NoRow])
                /\ written' = Bump(written, t.barcode)
                /\ repaid' = IF t.handler = "sync" THEN Bump(repaid, t.barcode) ELSE repaid
           ELSE /\ Become(t, [t EXCEPT !.pc = "resp", !.result = "err", !.existing = NoRow])
                /\ UNCHANGED <<ro_scanned_parts, nextPartId, written, repaid>>
    /\ UNCHANGED <<ro, ro_final_entries, ro_final_parts, clientVars, budget, captured, queued>>

\* updatePartQuantity(scanId, quantity)
UpdateExec(t) ==
    /\ t.handler = "update" /\ t.pc = "exec"
    /\ IF t.qty < 1
       THEN /\ Become(t, [t EXCEPT !.pc = "resp", !.result = "err"])
            /\ UNCHANGED ro_scanned_parts
       ELSE /\ ro_scanned_parts' = SetQuantity(ro_scanned_parts, t.id, t.qty)
            /\ Wrote(t, [t EXCEPT !.pc = "resp", !.result = "ok"])
    /\ UNCHANGED <<ro, ro_final_entries, ro_final_parts, nextPartId, clientVars, budget, histVars>>

\* deletePart(scanId)
DeleteExec(t) ==
    /\ t.handler = "delete" /\ t.pc = "exec"
    /\ ro_scanned_parts' = DeleteRow(ro_scanned_parts, t.id)
    /\ Wrote(t, [t EXCEPT !.pc = "resp", !.result = "ok"])
    /\ UNCHANGED <<ro, ro_final_entries, ro_final_parts, nextPartId, clientVars, budget, histVars>>

\* finalizeRO step 2: select * from ro_scanned_parts where ro_id; empty is rejected
FinalizeParts(t) ==
    /\ t.pc = "parts"
    /\ IF PartsOf(t.ro_id) = {}
       THEN Become(t, [t EXCEPT !.pc = "resp", !.result = "err"])
       ELSE Become(t, [t EXCEPT !.pc = "rpc_check"])
    /\ UNCHANGED <<dbVars, clientVars, budget, histVars>>

\* finalize_ro statements 1 and 2: raise if already finalized, else insert the header
\* (visible to this transaction only until it commits)
RpcCheck(t) ==
    /\ t.pc = "rpc_check"
    /\ IF StatusOf(t.ro_id) = "finalized"
       THEN Become(t, [t EXCEPT !.pc = "resp", !.result = "err"])
       ELSE Become(t, [t EXCEPT !.pc = "rpc_copy", !.entry = TRUE])
    /\ UNCHANGED <<dbVars, clientVars, budget, histVars>>

\* finalize_ro statement 3: insert into ro_final_parts select ... from ro_scanned_parts
RpcCopy(t) ==
    /\ t.pc = "rpc_copy"
    /\ Become(t, [t EXCEPT !.pc = "rpc_commit", !.lines = LiveLines(t.ro_id)])
    /\ UNCHANGED <<dbVars, clientVars, budget, histVars>>

\* the header row of a finalize_ro transaction
Header(t, entries) ==
    [id |-> NewEntryId(entries), ro_id |-> t.ro_id,
     ro_number |-> t.ro_number, finalized_at |-> Now]

\* an update of ro without its where clause
MarkFinalizedAll(orders, roId, at) ==
    {[r EXCEPT !.status = "finalized", !.finalized_at = at] : r \in orders}

\* finalize_ro statement 4: update ro set status = 'finalized', finalized_at = now()
\* where id = p_ro_id
MarkFinalized(orders, roId, at) ==
    {IF r.id = roId
     THEN [r EXCEPT !.status = "finalized", !.finalized_at = at]
     ELSE r : r \in orders}

\* finalize_ro statement 4 and commit: update ro set status = 'finalized'
RpcCommit(t) ==
    /\ t.pc = "rpc_commit"
    /\ LET h == Header(t, ro_final_entries)
       IN  /\ ro_final_entries' = ro_final_entries \cup {h}
           /\ ro_final_parts' = ro_final_parts \cup
                  {[final_entry_id |-> h.id, barcode_value |-> l.barcode_value,
                    quantity |-> l.quantity] : l \in t.lines}
           /\ ro' = MarkFinalized(ro, t.ro_id, Now)
    /\ Become(t, [t EXCEPT !.pc = "resp", !.result = "ok", !.entry = FALSE, !.lines = {}])
    /\ UNCHANGED <<ro_scanned_parts, nextPartId, clientVars, budget, histVars>>

\* a statement of a server action fails (store unreachable from the server, or an
\* exception inside finalize_ro): the action returns {error}; finalize_ro rolls back
StoreError(t) ==
    /\ t.pc \in {"status", "fetch", "write", "exec", "parts", "rpc_check", "rpc_copy", "rpc_commit"}
    /\ budget.fail > 0
    /\ ro_final_entries' =
          RollbackEntries(ro_final_entries,
                          IF t.entry THEN {Header(t, ro_final_entries)} ELSE {})
    /\ ro_final_parts' =
          RollbackLines(ro_final_parts,
                        {[final_entry_id |-> NewEntryId(ro_final_entries),
                          barcode_value |-> l.barcode_value, quantity |-> l.quantity] : l \in t.lines})
    /\ Become(t, [t EXCEPT !.pc = "resp", !.result = "err", !.existing = NoRow])
    /\ budget' = [budget EXCEPT !.fail = @ - 1]
    /\ UNCHANGED <<ro, ro_scanned_parts, nextPartId, clientVars, histVars>>

\* ------------------------------------------- order page: continuations
\* savePendingScans(scans): setPendingScans and localStorage.setItem
SavedState(s, scans) == [pendingScans EXCEPT ![s] = scans]
\* a setItem that writes every key
SavedStorageAll(s, scans) == [x \in DOMAIN localStorage |-> scans]

SavedStorage(s, scans) == [localStorage EXCEPT ![s] = scans]

\* the request never reached the server, or its response never came back
Lost(t) ==
    /\ budget.fail > 0
    /\ t.pc \in {"resp", IF t.handler \in {"update", "delete"} THEN "exec" ELSE "status"}

\* handleScan, after await scanPart: error is shown, success refreshes the page
ScanResolved(t) ==
    /\ t.handler = "scan" /\ t.pc = "resp"
    /\ view' = IF t.result = "ok" THEN Refreshed(t.session) ELSE view
    /\ Finish(t)
    /\ UNCHANGED <<dbVars, pendingScans, localStorage, scanner, page, budget, histVars>>

\* a catch branch that saves the queue without the barcode
NewPendingDropped(closure, barcode) == closure

\* handleScan, catch: const newPending = [...pendingScans, barcode]
NewPending(closure, barcode) == Append(closure, barcode)

\* handleScan, catch: [...pendingScans, barcode] of the closure is saved
ScanCatch(t) ==
    /\ LET newPending == NewPending(t.closure, t.barcode)
       IN  /\ pendingScans' = SavedState(t.session, newPending)
           /\ localStorage' = SavedStorage(t.session, newPending)
    /\ Finish(t)
    /\ queued' = Bump(queued, t.barcode)
    /\ repaid' = IF t.applied THEN Bump(repaid, t.barcode) ELSE repaid
    /\ UNCHANGED <<dbVars, view, scanner, page, captured, written>>

\* handleScan: the awaited scanPart call rejects
ScanThrew(t) ==
    /\ t.handler = "scan" /\ Lost(t)
    /\ ScanCatch(t)
    /\ budget' = [budget EXCEPT !.fail = @ - 1]

\* the request of a handleScan call, or its response, is dropped without an
\* error: the awaited scanPart call stays unsettled
Hang(t) ==
    /\ t.handler = "scan" /\ Lost(t)
    /\ Become(t, [t EXCEPT !.pc = "hung"])
    /\ budget' = [budget EXCEPT !.fail = @ - 1]
    /\ UNCHANGED <<dbVars, clientVars, histVars>>

\* the network timeout of the browser rejects the unsettled call: handleScan, catch
TimedOut(t) ==
    /\ t.handler = "scan" /\ t.pc = "hung"
    /\ ScanCatch(t)
    /\ UNCHANGED budget

\* history only: how the scanPart call of the current entry ended
Outcome(t, threw) == IF threw THEN "threw" ELSE t.result

\* a drain that forgets the entries that failed
KeptNone(failed, barcode, bad) == failed

\* handleSync: failed.push(barcode) when scanPart returned an error or threw
Kept(failed, barcode, bad) == IF bad THEN Append(failed, barcode) ELSE failed

\* handleSync, one turn of the for loop: the entry is kept when scanPart returned
\* an error or threw; after the last entry savePendingScans(failed), router.refresh()
SyncTurn(t, threw) ==
    LET failed == Kept(t.failed, t.barcode, threw \/ t.result = "err")
    IN  /\ IF t.i < Len(t.closure)
           THEN /\ Become(t, [t EXCEPT !.i = @ + 1, !.barcode = t.closure[t.i + 1],
                                !.pc = "status", !.failed = failed, !.existing = NoRow,
                                !.result = "", !.applied = FALSE,
                                !.late = Finalized(t.ro_id),
                                !.log = Append(@, Outcome(t, threw))])
                /\ UNCHANGED clientVars
           ELSE /\ pendingScans' = SavedState(t.session, failed)
                /\ localStorage' = SavedStorage(t.session, failed)
                /\ view' = Refreshed(t.session)
                /\ Finish(t)
        /\ UNCHANGED <<dbVars, scanner, page, histVars>>

SyncResolved(t) ==
    /\ t.handler = "sync" /\ t.pc = "resp"
    /\ SyncTurn(t, FALSE)
    /\ UNCHANGED budget

SyncThrew(t) ==
    /\ t.handler = "sync" /\ Lost(t)
    /\ SyncTurn(t, TRUE)
    /\ budget' = [budget EXCEPT !.fail = @ - 1]

\* handleUpdateQty / handleDelete / handleFinalize after the await
EditResolved(t) ==
    /\ t.handler \in {"update", "delete", "finalize"} /\ t.pc = "resp"
    /\ view' = IF t.result = "ok" THEN Refreshed(t.session) ELSE view
    /\ Finish(t)
    /\ UNCHANGED <<dbVars, pendingScans, localStorage, scanner, page, budget, histVars>>

\* the same handlers have no catch: the rejection ends the transition
EditThrew(t) ==
    /\ t.handler \in {"update", "delete", "finalize"} /\ Lost(t)
    /\ Finish(t)
    /\ budget' = [budget EXCEPT !.fail = @ - 1]
    /\ UNCHANGED <<dbVars, clientVars, histVars>>

\* ------------------------------------------ local variant (utils/db.ts)
\* The object stores "ros" and "parts" are held in ro and ro_scanned_parts; an
\* order's id is its ro_number. Every readwrite transaction on "parts" is one step.

\* scanPart, existing.quantity += 1; store.put(existing)
LocalPut(rows, existing) ==
    {IF p.id = existing.id THEN [p EXCEPT !.quantity = existing.quantity + 1] ELSE p : p \in rows}

\* new Date() of the local finalizeRO: it advances with every call
LocalNow == MaxFinalizes + 1 - budget.local_finalize

\* scanPart(roId, barcode) is called
LocalScanPart(roId, b) ==
    /\ budget.local_scan > 0
    /\ Start([BlankTask EXCEPT !.handler = "local_scan", !.session = "db", !.ro_id = roId,
                !.pc = "local_getRO", !.barcode = b, !.late = Finalized(roId)])
    /\ budget' = [budget EXCEPT !.local_scan = @ - 1]
    /\ UNCHANGED <<dbVars, clientVars, histVars>>

\* scanPart: await getRO(roId); a missing or finalized order is refused
LocalGetRO(t) ==
    /\ t.pc = "local_getRO"
    /\ IF IsDraft(StatusOf(t.ro_id))
       THEN Become(t, [t EXCEPT !.pc = "local_tx"])
       ELSE Become(t, [t EXCEPT !.pc = "local_resp", !.result = "err"])
    /\ UNCHANGED <<dbVars, clientVars, budget, histVars>>

\* scanPart: one transaction on "parts": index.get([roId, barcode]), then put or add
LocalScanTx(t) ==
    /\ t.pc = "local_tx"
    /\ LET hit == {p \in ro_scanned_parts : p.ro_id = t.ro_id /\ p.barcode_value = t.barcode}
       IN  IF hit # {}
           THEN /\ ro_scanned_parts' = LocalPut(ro_scanned_parts, CHOOSE p \in hit : TRUE)
                /\ UNCHANGED nextPartId
           ELSE /\ ro_scanned_parts' = InsertRow(ro_scanned_parts, t.ro_id, t.barcode, nextPartId)
                /\ nextPartId' = nextPartId + 1
    /\ Become(t, [t EXCEPT !.pc = "local_resp", !.result = "ok", !.applied = TRUE])
    /\ written' = Bump(written, t.barcode)
    /\ UNCHANGED <<ro, ro_final_entries, ro_final_parts, clientVars, budget,
                   captured, queued, repaid>>

\* scanPart: the promise resolves
LocalReturn(t) ==
    /\ t.pc = "local_resp"
    /\ Finish(t)
    /\ UNCHANGED <<dbVars, clientVars, budget, histVars>>

\* updatePartQuantity(id, qty): store.get(id); part.quantity = qty; store.put(part)
LocalUpdatePartQuantity(id, qty) ==
    /\ budget.local_update > 0
    /\ ro_scanned_parts' = SetQuantity(ro_scanned_parts, id, qty)
    /\ budget' = [budget EXCEPT !.local_update = @ - 1]
    /\ UNCHANGED <<ro, ro_final_entries, ro_final_parts, nextPartId, clientVars, tasks, histVars>>

\* deletePart(id): store.delete(id)
LocalDeletePart(id) ==
    /\ budget.local_delete > 0
    /\ ro_scanned_parts' = DeleteRow(ro_scanned_parts, id)
    /\ budget' = [budget EXCEPT !.local_delete = @ - 1]
    /\ UNCHANGED <<ro, ro_final_entries, ro_final_parts, nextPartId, clientVars, tasks, histVars>>

\* finalizeRO(roNumber): store.get(roNumber); status and finalized_at are written
LocalFinalizeRO(roNumber) ==
    /\ budget.local_finalize > 0
    /\ ro' = {IF r.ro_number = roNumber
              THEN [r EXCEPT !.status = "finalized", !.finalized_at = LocalNow]
              ELSE r : r \in ro}
    /\ budget' = [budget EXCEPT !.local_finalize = @ - 1]
    /\ UNCHANGED <<ro_scanned_parts, ro_final_entries, ro_final_parts, nextPartId,
                   clientVars, tasks, histVars>>

\* ------------------------------------------------------------ Scanner.tsx
\* history only: no processFrame invocation has ended yet
NoRun == [n |-> 0, frame |-> {}, stage |-> 0, tried |-> <<>>, outcome |-> "",
          alone |-> TRUE, gen |-> 0, mats |-> 0]

\* the Scanner as mounted by the order page, with the Start button rendered
ScannerIdle ==
    [mounted |-> TRUE,          \* the component is mounted
     keepOpen |-> FALSE,        \* the parent's onScan leaves isScanning on
     isScanning |-> FALSE,      \* parent state, passed as a prop
     shown |-> FALSE,           \* isScanning as last rendered: video and canvas exist
     error |-> "",              \* state error
     streamRef |-> 0,           \* streamRef.current, 0 for null
     tracks |-> {},             \* camera streams whose tracks are live
     nextStream |-> 1,
     gum |-> 0,                 \* getUserMedia calls that are pending
     meta |-> {},               \* onloadedmetadata handlers that may still fire
     gen |-> 0,                 \* which video/canvas elements the refs point to
     ready |-> FALSE,           \* video.readyState === HAVE_ENOUGH_DATA
     loopRef |-> FALSE,         \* scanLoopRef.current is not null
     rafTracked |-> FALSE,      \* the callback scanLoopRef.current names is pending
     rafOther |-> 0,            \* pending processFrame callbacks it does not name
     runs |-> {},               \* processFrame invocations awaiting a decode
     mats |-> 0,                \* OpenCV Mats allocated and not deleted
     processing |-> FALSE,      \* state processing
     debugInfo |-> "",          \* state debugInfo: the stage that found the symbol
     onScans |-> 0,             \* history: calls of onScan
     failed |-> FALSE,          \* history: a getUserMedia call has rejected
     last |-> NoRun]            \* history: the processFrame invocation that ended last

\* stopScan(): cancelAnimationFrame(scanLoopRef.current), stop the tracks of
\* streamRef.current, both refs to null
StopScan(sc) ==
    [sc EXCEPT !.rafTracked = IF sc.loopRef THEN FALSE ELSE @,
               !.loopRef = FALSE,
               !.tracks = IF sc.streamRef # 0 THEN @ \ {sc.streamRef} ELSE @,
               !.streamRef = 0]

\* a processFrame that ends without asking for the next frame
ScheduleNothing(sc) == sc

\* scanLoopRef.current = requestAnimationFrame(processFrame): the callback the
\* ref named before, if still pending, can no longer be cancelled
Schedule(sc) ==
    [sc EXCEPT !.rafOther = IF sc.rafTracked THEN @ + 1 ELSE @,
               !.rafTracked = TRUE,
               !.loopRef = TRUE]

\* a loop that jumps to the last stage
NextStageLast(stage) == 4

\* processFrame: Normal, then Grayscale, then Contrast, then Threshold
NextStage(stage) == stage + 1

\* decodeFromCanvas: the symbol of a frame is found at the stages of its kind; when
\* another invocation works on the same canvas the content is anybody's
CanFind(r) == r.alone => r.stage \in r.frame
CanMiss(r) == r.alone => r.stage \notin r.frame

\* the other variables of the module are not touched by the Scanner
ScannerOnly ==
    UNCHANGED <<dbVars, pendingScans, localStorage, view, page, tasks, histVars>>

\* the Start button: onClick={() => setIsScanning(true)}
ToggleOn ==
    /\ budget.starts > 0
    /\ scanner.mounted /\ ~scanner.shown /\ ~scanner.isScanning
    /\ scanner' = [scanner EXCEPT !.isScanning = TRUE]
    /\ budget' = [budget EXCEPT !.starts = @ - 1]
    /\ ScannerOnly

\* the CameraOff button: onClick={() => setIsScanning(false)}
ToggleOff ==
    /\ scanner.mounted /\ scanner.shown /\ scanner.isScanning
    /\ scanner' = [scanner EXCEPT !.isScanning = FALSE]
    /\ UNCHANGED budget
    /\ ScannerOnly

\* React renders the new isScanning and runs the effect: with scanning on, new
\* video and canvas elements and startScan() up to await getUserMedia; with
\* scanning off, the refs are null, the cleanup and the effect call stopScan()
Render ==
    /\ scanner.mounted /\ scanner.isScanning # scanner.shown
    /\ scanner' = IF scanner.isScanning
                  THEN [scanner EXCEPT !.shown = TRUE, !.gen = @ + 1, !.ready = FALSE,
                                       !.gum = @ + 1]
                  ELSE StopScan([scanner EXCEPT !.shown = FALSE, !.ready = FALSE])
    /\ UNCHANGED budget
    /\ ScannerOnly

\* the Scanner unmounts: the refs are null, the cleanup of the last effect, if it
\* returned one, calls stopScan()
Unmount ==
    /\ budget.unmount > 0
    /\ scanner.mounted
    /\ scanner' = IF scanner.shown
                  THEN StopScan([scanner EXCEPT !.mounted = FALSE, !.shown = FALSE,
                                                !.ready = FALSE])
                  ELSE [scanner EXCEPT !.mounted = FALSE]
    /\ budget' = [budget EXCEPT !.unmount = @ - 1]
    /\ ScannerOnly

\* startScan, after await getUserMedia: streamRef.current = stream;
\* videoRef.current.srcObject = stream throws when the ref is null and the catch
\* sets the error; else onloadedmetadata is set
GumResolves ==
    /\ scanner.gum > 0
    /\ LET id == scanner.nextStream
           got == [scanner EXCEPT !.gum = @ - 1, !.nextStream = @ + 1,
                                  !.tracks = @ \cup {id}, !.streamRef = id]
       IN  scanner' =
              IF scanner.shown
              THEN [got EXCEPT !.meta = {m \in @ : m.gen # scanner.gen}
                                          \cup {[gen |-> scanner.gen, stream |-> id]}]
              ELSE [got EXCEPT !.error = CameraError, !.isScanning = FALSE]
    /\ UNCHANGED budget
    /\ ScannerOnly

\* startScan, catch: getUserMedia rejected
GumRejects ==
    /\ scanner.gum > 0 /\ budget.camera_fail > 0
    /\ scanner' = [scanner EXCEPT !.gum = @ - 1, !.error = CameraError,
                                  !.isScanning = FALSE, !.failed = TRUE]
    /\ budget' = [budget EXCEPT !.camera_fail = @ - 1]
    /\ ScannerOnly

\* onloadedmetadata: videoRef.current?.play(); requestAnimationFrame(processFrame)
MetaLoaded(m) ==
    /\ m \in scanner.meta
    /\ scanner' = [scanner EXCEPT !.meta = @ \ {m},
                                  !.rafOther = @ + 1,
                                  !.ready = IF m.gen = scanner.gen /\ scanner.shown
                                            THEN TRUE ELSE @]
    /\ UNCHANGED budget
    /\ ScannerOnly

\* the tracks were stopped before the metadata came: the event never fires
MetaDropped(m) ==
    /\ m \in scanner.meta /\ m.stream \notin scanner.tracks
    /\ scanner' = [scanner EXCEPT !.meta = @ \ {m}]
    /\ UNCHANGED budget
    /\ ScannerOnly

\* a pending processFrame callback runs, up to its first await: return when the
\* refs are null; without video data only the next frame is scheduled; else the
\* frame is drawn and decodeFromCanvas(canvas, "Normal") is called
FrameCallback(tracked, frame) ==
    /\ IF tracked THEN scanner.rafTracked ELSE scanner.rafOther > 0
    /\ LET sc == IF tracked THEN [scanner EXCEPT !.rafTracked = FALSE]
                 ELSE [scanner EXCEPT !.rafOther = @ - 1]
           n == MaxFrames + 1 - budget.frames
           shared == \E r \in sc.runs : r.gen = sc.gen
       IN  IF ~sc.shown
           THEN /\ frame = {}
                /\ scanner' = sc
                /\ UNCHANGED budget
           ELSE IF ~sc.ready
           THEN /\ frame = {}
                /\ scanner' = Schedule(sc)
                /\ UNCHANGED budget
           ELSE /\ budget.frames > 0
                /\ scanner' =
                      [sc EXCEPT !.processing = TRUE,
                                 !.runs = {IF r.gen = sc.gen THEN [r EXCEPT !.alone = FALSE]
                                           ELSE r : r \in @}
                                          \cup {[n |-> n, frame |-> frame, stage |-> 1,
                                                 tried |-> <<1>>, outcome |-> "",
                                                 alone |-> ~shared, gen |-> sc.gen,
                                                 mats |-> 0]}]
                /\ budget' = [budget EXCEPT !.frames = @ - 1]
    /\ ScannerOnly

\* decodeFromCanvas found the symbol: setDebugInfo, onScan(text), return true;
\* processFrame deletes src and dst after stage 1, setProcessing(false), return
DecodeFound(r) ==
    /\ r \in scanner.runs /\ CanFind(r)
    /\ scanner' = [scanner EXCEPT !.runs = @ \ {r},
                                  !.debugInfo = StageName[r.stage],
                                  !.onScans = @ + 1,
                                  !.isScanning = IF scanner.keepOpen THEN @ ELSE FALSE,
                                  !.mats = @ - r.mats,
                                  !.processing = FALSE,
                                  !.last = [r EXCEPT !.outcome = "found", !.mats = 0]]
    /\ UNCHANGED budget
    /\ ScannerOnly

\* decodeFromCanvas returned false: the next transform is applied (src and dst are
\* allocated before the first one) and the next stage is tried; after Threshold
\* src and dst are deleted, setProcessing(false) and the next frame is scheduled
DecodeNotFound(r) ==
    /\ r \in scanner.runs /\ CanMiss(r)
    /\ scanner' =
          IF r.stage < 4
          THEN LET next == NextStage(r.stage)
               IN  [scanner EXCEPT !.runs = (@ \ {r}) \cup
                                      {[r EXCEPT !.stage = next, !.mats = 2,
                                                 !.tried = Append(@, next)]},
                                   !.mats = @ + (2 - r.mats)]
          ELSE Schedule([scanner EXCEPT !.runs = @ \ {r},
                                        !.mats = @ - r.mats,
                                        !.processing = FALSE,
                                        !.last = [r EXCEPT !.outcome = "notfound",
                                                           !.mats = 0]])
    /\ UNCHANGED budget
    /\ ScannerOnly

\* decodeFromCanvas returned false and the next transform throws (cvtColor,
\* equalizeHist or adaptiveThreshold): catch logs the error, setProcessing(false)
\* and the next frame is scheduled; src and dst were allocated
TransformThrows(r) ==
    /\ r \in scanner.runs /\ CanMiss(r) /\ r.stage < 4
    /\ budget.cv_throw > 0
    /\ scanner' = Schedule([scanner EXCEPT !.runs = @ \ {r},
                                           !.mats = @ + (2 - r.mats),
                                           !.processing = FALSE,
                                           !.last = [r EXCEPT !.outcome = "threw",
                                                              !.mats = 2]])
    /\ budget' = [budget EXCEPT !.cv_throw = @ - 1]
    /\ ScannerOnly

\* ------------------------------------------------------- createRO, both variants
\* String.prototype.toUpperCase, character by character
UpperChar(c) == IF c = "r" THEN "R" ELSE c
ToUpperCase(w) == [i \in 1..Len(w) |-> UpperChar(w[i])]

\* String.prototype.trim
RECURSIVE TrimStart(_)
TrimStart(w) == IF w # <<>> /\ Head(w) = " " THEN TrimStart(Tail(w)) ELSE w
RECURSIVE TrimEnd(_)
TrimEnd(w) ==
    IF w # <<>> /\ w[Len(w)] = " " THEN TrimEnd(SubSeq(w, 1, Len(w) - 1)) ELSE w
Trim(w) == TrimEnd(TrimStart(w))

\* ro.ro_number text not null unique
RoNumberTaken(orders, number) == \E r \in orders : r.ro_number = number

\* ro.id uuid default uuid_generate_v4()
NewRoId(orders) == Cardinality(orders) + 1

\* the create form calls createRO(roNumber)
HandleCreateRO(number) ==
    /\ budget.create > 0
    /\ Start([BlankTask EXCEPT !.handler = "create", !.session = "home",
                !.ro_number = number, !.pc = "create"])
    /\ budget' = [budget EXCEPT !.create = @ - 1]
    /\ UNCHANGED <<dbVars, clientVars, histVars>>

\* createRO: the number is required; insert { ro_number: trim().toUpperCase() };
\* error 23505 of the unique constraint is "RO Number already exists"
CreateRO(t) ==
    /\ t.pc = "create"
    /\ IF t.ro_number = <<>> \/ Trim(t.ro_number) = <<>>
       THEN /\ Become(t, [t EXCEPT !.pc = "created", !.result = "RO Number is required"])
            /\ UNCHANGED ro
       ELSE LET number == ToUpperCase(Trim(t.ro_number))
            IN  IF RoNumberTaken(ro, number)
                THEN /\ Become(t, [t EXCEPT !.pc = "created",
                                            !.result = "RO Number already exists"])
                     /\ UNCHANGED ro
                ELSE /\ ro' = ro \cup {[id |-> NewRoId(ro), ro_number |-> number,
                                        status |-> "draft", finalized_at |-> 0]}
                     /\ Become(t, [t EXCEPT !.pc = "created", !.result = "ok",
                                            !.applied = TRUE])
    /\ UNCHANGED <<ro_scanned_parts, ro_final_entries, ro_final_parts, nextPartId,
                   clientVars, budget, histVars>>

\* the local createRO(roNumber) is called: await openDB()
LocalCreateRO(number) ==
    /\ budget.local_create > 0
    /\ Start([BlankTask EXCEPT !.handler = "local_create", !.session = "db",
                !.ro_number = number, !.pc = "local_create"])
    /\ budget' = [budget EXCEPT !.local_create = @ - 1]
    /\ UNCHANGED <<dbVars, clientVars, histVars>>

\* local createRO, one transaction on "ros": store.get(ro.ro_number), then
\* store.put(ro) with id and ro_number roNumber.toUpperCase()
LocalCreateTx(t) ==
    /\ t.pc = "local_create"
    /\ LET number == ToUpperCase(t.ro_number)
       IN  IF RoNumberTaken(ro, number)
           THEN /\ Become(t, [t EXCEPT !.pc = "created",
                                       !.result = "RO Number already exists"])
                /\ UNCHANGED ro
           ELSE /\ ro' = ro \cup {[id |-> number, ro_number |-> number,
                                   status |-> "draft", finalized_at |-> 0]}
                /\ Become(t, [t EXCEPT !.pc = "created", !.result = "ok",
                                       !.applied = TRUE])
    /\ UNCHANGED <<ro_scanned_parts, ro_final_entries, ro_final_parts, nextPartId,
                   clientVars, budget, histVars>>

\* createRO returns its result to the form
CreateReturn(t) ==
    /\ t.pc = "created"
    /\ Finish(t)
    /\ UNCHANGED <<dbVars, clientVars, budget, histVars>>

\* ------------------------------------------------- local order page
\* a string, from its characters
RECURSIVE Join(_)
Join(w) == IF w = <<>> THEN "" ELSE Head(w) \o Join(Tail(w))

\* useState initial values; the listener is bound by the first render, ro is null
PageIdle ==
    [showManualInput |-> FALSE, manualBarcode |-> <<>>, manualConfirmOpen |-> FALSE,
     scanBuffer |-> <<>>, lastKeyTime |-> 0, error |-> "",
     activeElement |-> "BODY", now |-> Epoch, bound |-> "none",
     calls |-> <<>>,
     event |-> [n |-> 0, key |-> "", tag |-> "BODY", chars |-> 0, lastChar |-> 0]]

\* the page shows the order as a draft: ro is loaded and isFinalized is false
ShowsDraft(s) == view[s].status = "draft"

\* loadData() of the mount effect has ended: getRO and getScannedParts feed ro, parts
LoadData(s) ==
    /\ view[s].status = "none"
    /\ view' = Refreshed(s)
    /\ UNCHANGED <<dbVars, pendingScans, localStorage, scanner, page, tasks, budget, histVars>>

\* await scanPart(ro.ro_number, barcode), as called by handleScan
ScanCall(s, barcode, via) ==
    [BlankTask EXCEPT !.handler = "local_scan", !.session = s,
                      !.ro_id = view[s].ro_number, !.pc = "local_getRO",
                      !.barcode = barcode, !.via = via,
                      !.late = Finalized(view[s].ro_number)]

\* handleScan(barcode) of a render that saw ro with the given status; pg is the
\* page state the caller leaves; calls is the history of the invocations
handleScan(s, barcode, via, status, pg) ==
    IF status # "draft"
    THEN /\ page' = [pg EXCEPT !.calls = Append(@, [barcode |-> barcode, via |-> via,
                                                    scanPart |-> FALSE])]
         /\ UNCHANGED <<tasks, budget>>
    ELSE /\ budget.local_scan > 0
         /\ Start(ScanCall(s, barcode, via))
         /\ budget' = [budget EXCEPT !.local_scan = @ - 1]
         /\ page' = [pg EXCEPT !.error = "",
                               !.calls = Append(@, [barcode |-> barcode, via |-> via,
                                                    scanPart |-> TRUE])]

\* confirmManualAdd, after await handleScan(code)
ManualDone(pg) ==
    [pg EXCEPT !.manualBarcode = <<>>, !.manualConfirmOpen = FALSE,
               !.showManualInput = FALSE]

\* the Scanner, rendered when !isFinalized, reports a symbol: onScan={handleScan}
OnScan(s, b) ==
    /\ ShowsDraft(s)
    /\ handleScan(s, b, "camera", view[s].status, page)
    /\ UNCHANGED <<dbVars, pendingScans, localStorage, view, scanner, histVars>>

\* handleScan, after await scanPart: success runs loadData(), an error is shown;
\* a call made by confirmManualAdd then closes the manual entry
PageScanResolved(t) ==
    /\ t.handler = "local_scan" /\ t.session \in DOMAIN view
    /\ t.pc = "local_resp"
    /\ Finish(t)
    /\ view' = IF t.result = "ok" THEN Refreshed(t.session) ELSE view
    /\ LET shown == IF t.result = "ok" THEN page ELSE [page EXCEPT !.error = t.result]
       IN  page' = IF t.via = "manual" THEN ManualDone(shown) ELSE shown
    /\ UNCHANGED <<dbVars, pendingScans, localStorage, scanner, budget, histVars>>

\* handleFinalize: the button is rendered when !isFinalized and enabled when parts
\* are listed; finalizeRO(ro.ro_number), then router.refresh(), which leaves the
\* state of the component as it is
PageHandleFinalize(s) ==
    /\ ShowsDraft(s)
    /\ view[s].parts # {}
    /\ LocalFinalizeRO(view[s].ro_number)

\* the page is loaded again: a new component, whose mount effect runs loadData()
Reload(s) ==
    /\ \A t \in tasks : t.session # s
    /\ view[s].status # "none"
    /\ view' = [view EXCEPT ![s].status = "none", ![s].parts = {}]
    /\ page' = [PageIdle EXCEPT !.now = page.now, !.calls = page.calls,
                                !.event = page.event,
                                !.activeElement = "BODY"]
    /\ UNCHANGED <<dbVars, pendingScans, localStorage, scanner, tasks, budget, histVars>>

\* "Enter Barcode Manually" / "Hide Manual Entry"
ToggleManual(s) ==
    /\ ShowsDraft(s)
    /\ page' = [page EXCEPT !.showManualInput = ~@]
    /\ UNCHANGED <<dbVars, pendingScans, localStorage, view, scanner, tasks, budget, histVars>>

\* the input is rendered while the confirmation is not: onChange sets manualBarcode
TypeManual(s, text) ==
    /\ ShowsDraft(s)
    /\ page.showManualInput /\ ~page.manualConfirmOpen
    /\ page' = [page EXCEPT !.manualBarcode = text]
    /\ UNCHANGED <<dbVars, pendingScans, localStorage, view, scanner, tasks, budget, histVars>>

\* a validation that lets every text through
validateAnything(code) == TRUE

validateManualInput(code) == Len(Trim(code)) >= 3

\* handleManualSubmit: the form is submitted
HandleManualSubmit(s) ==
    /\ ShowsDraft(s)
    /\ page.showManualInput /\ ~page.manualConfirmOpen
    /\ LET code == ToUpperCase(Trim(page.manualBarcode))
       IN  page' = IF code = <<>> THEN page
                   ELSE IF ~validateManualInput(code)
                        THEN [page EXCEPT !.error = "Invalid barcode format (min 3 chars)."]
                        ELSE [page EXCEPT !.manualConfirmOpen = TRUE]
    /\ UNCHANGED <<dbVars, pendingScans, localStorage, view, scanner, tasks, budget, histVars>>

\* the Cancel button of the confirmation
CancelManual(s) ==
    /\ ShowsDraft(s)
    /\ page.showManualInput /\ page.manualConfirmOpen
    /\ page' = [page EXCEPT !.manualConfirmOpen = FALSE]
    /\ UNCHANGED <<dbVars, pendingScans, localStorage, view, scanner, tasks, budget, histVars>>

\* confirmManualAdd: the Confirm Add button, rendered with the confirmation
ConfirmManualAdd(s) ==
    /\ ShowsDraft(s)
    /\ page.showManualInput /\ page.manualConfirmOpen
    /\ handleScan(s, Join(ToUpperCase(Trim(page.manualBarcode))), "manual",
                  view[s].status, page)
    /\ UNCHANGED <<dbVars, pendingScans, localStorage, view, scanner, histVars>>

\* the user moves the focus
Focus(tag) ==
    /\ page.activeElement # tag
    /\ page' = [page EXCEPT !.activeElement = tag]
    /\ UNCHANGED <<dbVars, pendingScans, localStorage, view, scanner, tasks, budget, histVars>>

\* a buffer that is never reset
TypedOn(buffer, key, elapsed) == buffer \o <<key>>

\* the buffer after a character key: too slow a key drops what was typed before
Typed(buffer, key, elapsed) ==
    (IF elapsed > 100 /\ buffer # <<>> THEN <<>> ELSE buffer) \o <<key>>

\* handleKeyDown(e), gap milliseconds after the last event; event is the history
\* of the key events: their number, the last key and the focus it met, and the
\* number and the time of the characters that met no input. A state update made in
\* a keydown listener is rendered, and the effect bound again, before the next
\* event is dispatched: the listener reads the scanBuffer and lastKeyTime of the
\* last render, and the handleScan (with its ro) of the render that bound it
HandleKeyDown(s, key, gap) ==
    /\ page.event.n < MaxKeys
    /\ LET currentTime == page.now + gap
           buffered == page.activeElement \notin {"INPUT", "TEXTAREA"} /\ Len(key) = 1
           seen == [page EXCEPT !.now = currentTime,
                                !.event = [n |-> @.n + 1, key |-> key,
                                           tag |-> page.activeElement,
                                           chars |-> IF buffered THEN @.chars + 1
                                                     ELSE @.chars,
                                           lastChar |-> IF buffered THEN currentTime
                                                        ELSE @.lastChar]]
           idle == page' = seen /\ UNCHANGED <<tasks, budget>>
       IN  IF page.activeElement \in {"INPUT", "TEXTAREA"}
           THEN idle
           ELSE IF key = "Enter"
                THEN IF Len(page.scanBuffer) > 0
                     THEN handleScan(s, Join(page.scanBuffer), "wedge", page.bound,
                                     [seen EXCEPT !.scanBuffer = <<>>,
                                                  !.bound = view[s].status])
                     ELSE idle
                ELSE IF Len(key) = 1
                     THEN /\ page' = [seen EXCEPT
                                  !.scanBuffer = Typed(@, key, currentTime - page.lastKeyTime),
                                  !.lastKeyTime = currentTime,
                                  !.bound = view[s].status]
                          /\ UNCHANGED <<tasks, budget>>
                     ELSE idle
    /\ UNCHANGED <<dbVars, pendingScans, localStorage, view, scanner, histVars>>

\* ------------------------------------------------------------ specification
InitStore ==
    /\ ro = {[id |-> OrderId, ro_number |-> RoNumber, status |-> "draft", finalized_at |-> 0]}
    /\ ro_scanned_parts = {}
    /\ ro_final_entries = {}
    /\ ro_final_parts = {}
    /\ nextPartId = 1

InitPage(ss) ==
    /\ scanner = ScannerIdle
    /\ page = PageIdle
    /\ pendingScans = [s \in ss |-> <<>>]
    /\ localStorage = [s \in ss |-> <<>>]
    /\ view = [s \in ss |-> [id |-> OrderId, ro_number |-> RoNumber,
                              status |-> "draft", parts |-> {}]]
    /\ tasks = {}
    /\ captured = ZeroQty /\ written = ZeroQty /\ queued = ZeroQty /\ repaid = ZeroQty

\* the offline queue of one session: scans, drains and finalization
InitQueue ==
    /\ InitStore
    /\ InitPage({"s1"})
    /\ budget = [scan |-> MaxScans, sync |-> MaxSyncs, update |-> 0,
                 delete |-> 0, finalize |-> MaxFinalizes, fail |-> MaxFailures,
                 inflight |-> MaxInFlight]

NextQueue ==
    \/ \E t \in tasks : CheckDraft(t)
    \/ \E t \in tasks : ScanFetch(t)
    \/ \E t \in tasks : ScanWrite(t)
    \/ \E t \in tasks : FinalizeParts(t)
    \/ \E t \in tasks : RpcCheck(t)
    \/ \E t \in tasks : RpcCopy(t)
    \/ \E t \in tasks : RpcCommit(t)
    \/ \E t \in tasks : StoreError(t)
    \/ \E s \in DOMAIN view, b \in Barcodes : HandleScan(s, b)
    \/ \E s \in DOMAIN view : HandleSync(s)
    \/ \E s \in DOMAIN view : HandleFinalize(s)
    \/ \E s \in DOMAIN view : Mount(s)
    \/ \E t \in tasks : ScanResolved(t)
    \/ \E t \in tasks : ScanThrew(t)
    \/ \E t \in tasks : SyncResolved(t)
    \/ \E t \in tasks : SyncThrew(t)
    \/ \E t \in tasks : EditResolved(t)
    \/ \E t \in tasks : EditThrew(t)

SpecQueue == InitQueue /\ [][NextQueue]_vars

\* the offline queue of one session on an order that stays a draft: scans and drains
InitDrain ==
    /\ InitStore
    /\ InitPage({"s1"})
    /\ budget = [scan |-> MaxScans, sync |-> MaxSyncs, update |-> 0,
                 delete |-> 0, finalize |-> 0, fail |-> MaxFailures,
                 inflight |-> MaxInFlight]

NextDrain ==
    \/ \E t \in tasks : CheckDraft(t)
    \/ \E t \in tasks : ScanFetch(t)
    \/ \E t \in tasks : ScanWrite(t)
    \/ \E t \in tasks : StoreError(t)
    \/ \E s \in DOMAIN view, b \in Barcodes : HandleScan(s, b)
    \/ \E s \in DOMAIN view : HandleSync(s)
    \/ \E s \in DOMAIN view : Mount(s)
    \/ \E t \in tasks : ScanResolved(t)
    \/ \E t \in tasks : ScanThrew(t)
    \/ \E t \in tasks : SyncResolved(t)
    \/ \E t \in tasks : SyncThrew(t)

SpecDrain == InitDrain /\ [][NextDrain]_vars

\* the record store under two sessions: scans, edits, deletes and finalization
InitStoreSessions ==
    /\ InitStore
    /\ InitPage(Sessions)
    /\ budget = [scan |-> MaxScans, sync |-> 0, update |-> MaxUpdates,
                 delete |-> MaxDeletes, finalize |-> MaxFinalizes, fail |-> MaxStoreErrors,
                 inflight |-> MaxInFlight]

NextStore ==
    \/ \E t \in tasks : CheckDraft(t)
    \/ \E t \in tasks : ScanFetch(t)
    \/ \E t \in tasks : ScanWrite(t)
    \/ \E t \in tasks : UpdateExec(t)
    \/ \E t \in tasks : DeleteExec(t)
    \/ \E t \in tasks : FinalizeParts(t)
    \/ \E t \in tasks : RpcCheck(t)
    \/ \E t \in tasks : RpcCopy(t)
    \/ \E t \in tasks : RpcCommit(t)
    \/ \E t \in tasks : StoreError(t)
    \/ \E s \in DOMAIN view, b \in Barcodes : HandleScan(s, b)
    \/ \E s \in DOMAIN view, id \in 1..nextPartId, q \in EditQtys : HandleUpdateQty(s, id, q)
    \/ \E s \in DOMAIN view, id \in 1..nextPartId : HandleDelete(s, id)
    \/ \E s \in DOMAIN view : HandleFinalize(s)
    \/ \E s \in DOMAIN view : Mount(s)
    \/ \E t \in tasks : ScanResolved(t)
    \/ \E t \in tasks : EditResolved(t)

SpecStore == InitStoreSessions /\ [][NextStore]_vars

\* the record store under two sessions that scan and finalize
InitSnapshot ==
    /\ InitStore
    /\ InitPage(Sessions)
    /\ budget = [scan |-> MaxScans, sync |-> 0, update |-> 0,
                 delete |-> 0, finalize |-> MaxFinalizes, fail |-> MaxStoreErrors,
                 inflight |-> MaxInFlight]

NextSnapshot ==
    \/ \E t \in tasks : CheckDraft(t)
    \/ \E t \in tasks : ScanFetch(t)
    \/ \E t \in tasks : ScanWrite(t)
    \/ \E t \in tasks : FinalizeParts(t)
    \/ \E t \in tasks : RpcCheck(t)
    \/ \E t \in tasks : RpcCopy(t)
    \/ \E t \in tasks : RpcCommit(t)
    \/ \E t \in tasks : StoreError(t)
    \/ \E s \in DOMAIN view, b \in Barcodes : HandleScan(s, b)
    \/ \E s \in DOMAIN view : HandleFinalize(s)
    \/ \E s \in DOMAIN view : Mount(s)
    \/ \E t \in tasks : ScanResolved(t)
    \/ \E t \in tasks : EditResolved(t)

SpecSnapshot == InitSnapshot /\ [][NextSnapshot]_vars

\* the local variant after createRO(RoNumber)
InitLocalStore ==
    /\ ro = {[id |-> RoNumber, ro_number |-> RoNumber, status |-> "draft", finalized_at |-> 0]}
    /\ ro_scanned_parts = {}
    /\ ro_final_entries = {}
    /\ ro_final_parts = {}
    /\ nextPartId = 1

NoBudget ==
    [scan |-> 0, sync |-> 0, update |-> 0, delete |-> 0, finalize |-> 0, fail |-> 0,
     inflight |-> 0, local_scan |-> 0, local_update |-> 0, local_delete |-> 0,
     local_finalize |-> 0, create |-> 0, local_create |-> 0,
     starts |-> 0, frames |-> 0, camera_fail |-> 0, cv_throw |-> 0, unmount |-> 0]

\* one operation at a time: a handler is called only after the one before it has
\* ended, in the networked variant (one session) or in the local variant
InitSequential ==
    \/ /\ InitStore
       /\ InitPage({"s1"})
       /\ budget = [NoBudget EXCEPT !.scan = MaxSequentialScans, !.sync = MaxSyncs,
                                    !.finalize = MaxFinalizes,
                                    !.fail = MaxSequentialFailures, !.inflight = 1]
    \/ /\ InitLocalStore
       /\ InitPage({"s1"})
       /\ budget = [NoBudget EXCEPT !.local_scan = MaxSequentialScans,
                                    !.local_finalize = MaxFinalizes, !.inflight = 1]

NextSequential ==
    \/ \E t \in tasks : CheckDraft(t)
    \/ \E t \in tasks : ScanFetch(t)
    \/ \E t \in tasks : ScanWrite(t)
    \/ \E t \in tasks : FinalizeParts(t)
    \/ \E t \in tasks : RpcCheck(t)
    \/ \E t \in tasks : RpcCopy(t)
    \/ \E t \in tasks : RpcCommit(t)
    \/ \E t \in tasks : StoreError(t)
    \/ \E s \in DOMAIN view, b \in Barcodes : HandleScan(s, b)
    \/ \E s \in DOMAIN view : HandleSync(s)
    \/ \E s \in DOMAIN view : HandleFinalize(s)
    \/ \E s \in DOMAIN view : HandleFinalizeRejected(s)
    \/ \E t \in tasks : ScanResolved(t)
    \/ \E t \in tasks : ScanThrew(t)
    \/ \E t \in tasks : SyncResolved(t)
    \/ \E t \in tasks : SyncThrew(t)
    \/ \E t \in tasks : EditResolved(t)
    \/ \E t \in tasks : EditThrew(t)
    \/ \E b \in Barcodes : LocalScanPart(RoNumber, b)
    \/ \E t \in tasks : LocalGetRO(t)
    \/ \E t \in tasks : LocalScanTx(t)
    \/ \E t \in tasks : LocalReturn(t)
    \/ LocalFinalizeRO(RoNumber)

SpecSequential == InitSequential /\ [][NextSequential]_vars

\* the parts of a draft order under concurrent scans, edits and deletes: the
\* networked variant (the calls of one session overlap), or the local variant
InitParts ==
    \/ /\ InitStore
       /\ InitPage({"s1"})
       /\ budget = [NoBudget EXCEPT !.scan = MaxScans, !.update = MaxUpdates,
                                    !.delete = MaxDeletes, !.fail = MaxStoreErrors,
                                    !.inflight = MaxInFlight]
    \/ /\ InitLocalStore
       /\ InitPage({"s1"})
       /\ budget = [NoBudget EXCEPT !.local_scan = MaxScans, !.local_update = MaxUpdates,
                                    !.local_delete = MaxDeletes, !.inflight = MaxInFlight]

NextParts ==
    \/ \E t \in tasks : CheckDraft(t)
    \/ \E t \in tasks : ScanFetch(t)
    \/ \E t \in tasks : ScanWrite(t)
    \/ \E t \in tasks : UpdateExec(t)
    \/ \E t \in tasks : DeleteExec(t)
    \/ \E t \in tasks : StoreError(t)
    \/ \E s \in DOMAIN view, b \in Barcodes : HandleScan(s, b)
    \/ \E s \in DOMAIN view, id \in 1..nextPartId, q \in EditQtys : HandleUpdateQty(s, id, q)
    \/ \E s \in DOMAIN view, id \in 1..nextPartId : HandleDelete(s, id)
    \/ \E s \in DOMAIN view : Mount(s)
    \/ \E t \in tasks : ScanResolved(t)
    \/ \E t \in tasks : EditResolved(t)
    \/ \E b \in Barcodes : LocalScanPart(RoNumber, b)
    \/ \E t \in tasks : LocalGetRO(t)
    \/ \E t \in tasks : LocalScanTx(t)
    \/ \E t \in tasks : LocalReturn(t)
    \/ \E id \in 1..nextPartId, q \in EditQtys : LocalUpdatePartQuantity(id, q)
    \/ \E id \in 1..nextPartId : LocalDeletePart(id)

SpecParts == InitParts /\ [][NextParts]_vars

\* two draft orders, each shown by the page of one session
InitTwoOrders ==
    /\ ro = {[id |-> OrderId, ro_number |-> RoNumber, status |-> "draft", finalized_at |-> 0],
             [id |-> OtherOrderId, ro_number |-> OtherRoNumber, status |-> "draft",
              finalized_at |-> 0]}
    /\ ro_scanned_parts = {}
    /\ ro_final_entries = {}
    /\ ro_final_parts = {}
    /\ nextPartId = 1
    /\ scanner = ScannerIdle
    /\ page = PageIdle
    /\ pendingScans = [s \in Sessions |-> <<>>]
    /\ localStorage = [s \in Sessions |-> <<>>]
    /\ view = [s \in Sessions |->
                 IF s = "s1"
                 THEN [id |-> OrderId, ro_number |-> RoNumber, status |-> "draft", parts |-> {}]
                 ELSE [id |-> OtherOrderId, ro_number |-> OtherRoNumber,
                       status |-> "draft", parts |-> {}]]
    /\ tasks = {}
    /\ captured = ZeroQty /\ written = ZeroQty /\ queued = ZeroQty /\ repaid = ZeroQty

\* the pages of two orders in one browser: each page keeps its queue under the
\* key of its own order; scans, drains, failures and reloads
InitDurable ==
    /\ InitTwoOrders
    /\ budget = [NoBudget EXCEPT !.scan = MaxScans, !.sync = MaxSyncs,
                                 !.fail = MaxFailures,
                                 !.inflight = Cardinality(Sessions)]

NextDurable ==
    \/ \E t \in tasks : CheckDraft(t)
    \/ \E t \in tasks : ScanFetch(t)
    \/ \E t \in tasks : ScanWrite(t)
    \/ \E s \in DOMAIN view, b \in Barcodes : HandleScan(s, b)
    \/ \E s \in DOMAIN view : HandleSync(s)
    \/ \E s \in DOMAIN view : Mount(s)
    \/ \E t \in tasks : ScanResolved(t)
    \/ \E t \in tasks : ScanThrew(t)
    \/ \E t \in tasks : SyncResolved(t)
    \/ \E t \in tasks : SyncThrew(t)

SpecDurable == InitDurable /\ [][NextDurable]_vars

\* two orders worked on at the same time, each from its own page: scans, lost
\* calls, drains and finalization
InitOrders ==
    /\ InitTwoOrders
    /\ budget = [NoBudget EXCEPT !.scan = MaxScans, !.sync = MaxSyncs,
                                 !.finalize = MaxFinalizes, !.fail = MaxStoreErrors,
                                 !.inflight = Cardinality(Sessions)]

NextOrders ==
    \/ \E t \in tasks : CheckDraft(t)
    \/ \E t \in tasks : ScanFetch(t)
    \/ \E t \in tasks : ScanWrite(t)
    \/ \E t \in tasks : FinalizeParts(t)
    \/ \E t \in tasks : RpcCheck(t)
    \/ \E t \in tasks : RpcCopy(t)
    \/ \E t \in tasks : RpcCommit(t)
    \/ \E s \in DOMAIN view, b \in Barcodes : HandleScan(s, b)
    \/ \E s \in DOMAIN view : HandleSync(s)
    \/ \E s \in DOMAIN view : HandleFinalize(s)
    \/ \E t \in tasks : ScanResolved(t)
    \/ \E t \in tasks : ScanThrew(t)
    \/ \E t \in tasks : SyncResolved(t)
    \/ \E t \in tasks : EditResolved(t)

SpecOrders == InitOrders /\ [][NextOrders]_vars

\* finalizeRO as an endpoint: besides the pages of two orders, calls with any
\* pair of an order id and an order number
InitCalls ==
    /\ InitTwoOrders
    /\ budget = [NoBudget EXCEPT !.scan = MaxScans, !.finalize = MaxFinalizes,
                                 !.inflight = Cardinality(Sessions)]

NextCalls ==
    \/ \E t \in tasks : CheckDraft(t)
    \/ \E t \in tasks : ScanFetch(t)
    \/ \E t \in tasks : ScanWrite(t)
    \/ \E t \in tasks : FinalizeParts(t)
    \/ \E t \in tasks : RpcCheck(t)
    \/ \E t \in tasks : RpcCopy(t)
    \/ \E t \in tasks : RpcCommit(t)
    \/ \E s \in DOMAIN view, b \in Barcodes : HandleScan(s, b)
    \/ \E s \in DOMAIN view : HandleFinalize(s)
    \/ \E s \in DOMAIN view, roId \in {OrderId, OtherOrderId, MissingOrderId},
          roNumber \in {RoNumber, OtherRoNumber} : FinalizeROCall(s, roId, roNumber)
    \/ \E t \in tasks : ScanResolved(t)
    \/ \E t \in tasks : EditResolved(t)

SpecCalls == InitCalls /\ [][NextCalls]_vars

\* the local order page, just opened on a draft order of the local store
InitLocalPage ==
    /\ InitLocalStore
    /\ scanner = ScannerIdle
    /\ page = PageIdle
    /\ pendingScans = [s \in {"s1"} |-> <<>>]
    /\ localStorage = [s \in {"s1"} |-> <<>>]
    /\ view = [s \in {"s1"} |-> [id |-> RoNumber, ro_number |-> RoNumber,
                                  status |-> "none", parts |-> {}]]
    /\ tasks = {}
    /\ captured = ZeroQty /\ written = ZeroQty /\ queued = ZeroQty /\ repaid = ZeroQty

\* the local page scans with the camera and finalizes, the order is also finalized
\* from another tab, and the page is loaded again
InitLocalScan ==
    /\ InitLocalPage
    /\ budget = [NoBudget EXCEPT !.local_scan = MaxPageScans,
                                 !.local_finalize = MaxFinalizes, !.inflight = MaxInFlight]

NextLocalScan ==
    \/ \E s \in DOMAIN view : LoadData(s)
    \/ \E s \in DOMAIN view, b \in Barcodes : OnScan(s, b)
    \/ \E t \in tasks : LocalGetRO(t)
    \/ \E t \in tasks : LocalScanTx(t)
    \/ \E t \in tasks : PageScanResolved(t)
    \/ \E s \in DOMAIN view : PageHandleFinalize(s)
    \/ LocalFinalizeRO(RoNumber)
    \/ \E s \in DOMAIN view : Reload(s)

SpecLocalScan == InitLocalScan /\ [][NextLocalScan]_vars

\* the local page with its manual entry: barcodes are typed, verified, confirmed
\* or cancelled, next to scans of the camera
InitManual ==
    /\ InitLocalPage
    /\ budget = [NoBudget EXCEPT !.local_scan = MaxPageScans, !.inflight = MaxInFlight]

NextManual ==
    \/ \E s \in DOMAIN view : LoadData(s)
    \/ \E s \in DOMAIN view, b \in Labels : OnScan(s, b)
    \/ \E s \in DOMAIN view : ToggleManual(s)
    \/ \E s \in DOMAIN view, text \in ManualTexts : TypeManual(s, text)
    \/ \E s \in DOMAIN view : HandleManualSubmit(s)
    \/ \E s \in DOMAIN view : CancelManual(s)
    \/ \E s \in DOMAIN view : ConfirmManualAdd(s)
    \/ \E t \in tasks : LocalGetRO(t)
    \/ \E t \in tasks : LocalScanTx(t)
    \/ \E t \in tasks : PageScanResolved(t)

SpecManual == InitManual /\ [][NextManual]_vars

\* the local page with a keyboard-wedge scanner: keys arrive fast or slowly while
\* the focus moves, and the scans they trigger are committed
InitWedge ==
    /\ InitLocalPage
    /\ budget = [NoBudget EXCEPT !.local_scan = MaxPageScans, !.inflight = MaxInFlight]

NextWedge ==
    \/ \E s \in DOMAIN view : LoadData(s)
    \/ \E tag \in Tags : Focus(tag)
    \/ \E s \in DOMAIN view, key \in Keys, gap \in Gaps : HandleKeyDown(s, key, gap)
    \/ \E t \in tasks : LocalGetRO(t)
    \/ \E t \in tasks : LocalScanTx(t)
    \/ \E t \in tasks : PageScanResolved(t)

SpecWedge == InitWedge /\ [][NextWedge]_vars

\* live scans of one page with requests that fail or hang; the server actions
\* run on, a response that arrives is handled, an unsettled call times out
InitResolve ==
    /\ InitStore
    /\ InitPage({"s1"})
    /\ budget = [NoBudget EXCEPT !.scan = MaxScans, !.fail = MaxFailures,
                                 !.inflight = MaxInFlight]

NextResolve ==
    \/ \E t \in tasks : CheckDraft(t)
    \/ \E t \in tasks : ScanFetch(t)
    \/ \E t \in tasks : ScanWrite(t)
    \/ \E t \in tasks : StoreError(t)
    \/ \E s \in DOMAIN view, b \in Barcodes : HandleScan(s, b)
    \/ \E t \in tasks : ScanResolved(t)
    \/ \E t \in tasks : ScanThrew(t)
    \/ \E t \in tasks : Hang(t)
    \/ \E t \in tasks : TimedOut(t)

FairResolve ==
    /\ WF_vars(\E t \in tasks : CheckDraft(t))
    /\ WF_vars(\E t \in tasks : ScanFetch(t))
    /\ WF_vars(\E t \in tasks : ScanWrite(t))
    /\ WF_vars(\E t \in tasks : ScanResolved(t))
    /\ WF_vars(\E t \in tasks : TimedOut(t))

SpecResolve == InitResolve /\ [][NextResolve]_vars /\ FairResolve

\* orders are created, by overlapping calls, in the networked variant or in the
\* local variant
InitCreate ==
    /\ ro = {}
    /\ ro_scanned_parts = {} /\ ro_final_entries = {} /\ ro_final_parts = {}
    /\ nextPartId = 1
    /\ InitPage({"s1"})
    /\ \/ budget = [NoBudget EXCEPT !.create = MaxCreates, !.inflight = MaxInFlight]
       \/ budget = [NoBudget EXCEPT !.local_create = MaxCreates, !.inflight = MaxInFlight]

NextCreate ==
    \/ \E number \in RoNumbers : HandleCreateRO(number)
    \/ \E t \in tasks : CreateRO(t)
    \/ \E number \in RoNumbers : LocalCreateRO(number)
    \/ \E t \in tasks : LocalCreateTx(t)
    \/ \E t \in tasks : CreateReturn(t)

SpecCreate == InitCreate /\ [][NextCreate]_vars

\* the Scanner of an order page whose onScan closes it (networked variant) or
\* leaves it open (local variant): the user turns it on and off, the page may
\* unmount it, the camera may fail, frames are decoded
InitScannerPage ==
    /\ InitStore
    /\ pendingScans = [s \in {"s1"} |-> <<>>]
    /\ localStorage = [s \in {"s1"} |-> <<>>]
    /\ view = [s \in {"s1"} |-> [id |-> OrderId, ro_number |-> RoNumber,
                                  status |-> "draft", parts |-> {}]]
    /\ tasks = {}
    /\ captured = ZeroQty /\ written = ZeroQty /\ queued = ZeroQty /\ repaid = ZeroQty
    /\ \E keep \in BOOLEAN : scanner = [ScannerIdle EXCEPT !.keepOpen = keep]
    /\ page = PageIdle

InitScanner ==
    /\ InitScannerPage
    /\ budget = [NoBudget EXCEPT !.starts = MaxStarts, !.frames = MaxFrames,
                                 !.camera_fail = MaxCameraFailures,
                                 !.cv_throw = MaxCvThrows, !.unmount = 1]

NextScanner ==
    \/ ToggleOn
    \/ ToggleOff
    \/ Render
    \/ Unmount
    \/ GumResolves
    \/ GumRejects
    \/ \E m \in scanner.meta : MetaLoaded(m)
    \/ \E m \in scanner.meta : MetaDropped(m)
    \/ \E tracked \in BOOLEAN, frame \in FrameKinds : FrameCallback(tracked, frame)
    \/ \E r \in scanner.runs : DecodeFound(r)
    \/ \E r \in scanner.runs : DecodeNotFound(r)
    \/ \E r \in scanner.runs : TransformThrows(r)

SpecScanner == InitScanner /\ [][NextScanner]_vars

\* the decode loop of the Scanner: frames are drawn and
\* decoded stage by stage, transforms may throw, the user may turn it off
InitDecode ==
    /\ InitScannerPage
    /\ budget = [NoBudget EXCEPT !.starts = MaxStarts, !.frames = MaxFrames,
                                 !.cv_throw = MaxCvThrows]

NextDecode ==
    \/ ToggleOn
    \/ ToggleOff
    \/ Render
    \/ GumResolves
    \/ \E m \in scanner.meta : MetaLoaded(m)
    \/ \E m \in scanner.meta : MetaDropped(m)
    \/ \E tracked \in BOOLEAN, frame \in FrameKinds : FrameCallback(tracked, frame)
    \/ \E r \in scanner.runs : DecodeFound(r)
    \/ \E r \in scanner.runs : DecodeNotFound(r)
    \/ \E r \in scanner.runs : TransformThrows(r)

SpecDecode == InitDecode /\ [][NextDecode]_vars

\* ----------------------------------------------------------------- claims
RECURSIVE Persisted(_, _)
Persisted(ss, b) ==
    IF ss = {} THEN 0
    ELSE LET s == CHOOSE x \in ss : TRUE
         IN  Count(localStorage[s], b) + Persisted(ss \ {s}, b)

RECURSIVE InMemory(_, _)
InMemory(ss, b) ==
    IF ss = {} THEN 0
    ELSE LET s == CHOOSE x \in ss : TRUE
         IN  Count(pendingScans[s], b) + InMemory(ss \ {s}, b)

\* C1: no loss. Every scan whose commit attempt ended in a connectivity exception
\* is still in the pending queue (state and localStorage) or was written to the
\* store: per barcode, the scans queued so far never exceed the entries still
\* queued plus the store writes made for queued scans.
NoLoss ==
    \A b \in Barcodes :
        /\ queued[b] <= repaid[b] + Persisted(DOMAIN view, b)
        /\ queued[b] <= repaid[b] + InMemory(DOMAIN view, b)

\* C2: no duplication. Per barcode, the increments scanPart applied to the store
\* never exceed the scans captured (original attempts and drains together).
NoDuplication ==
    \A b \in Barcodes : written[b] <= captured[b]

\* the invocations in ts that equal t but for `copy`
Like(ts, t) == {x \in ts : [x EXCEPT !.copy = 0] = [t EXCEPT !.copy = 0]}

\* the step in which handleSync returns after a drain whose every scanPart succeeded
DrainSucceeds(t) ==
    /\ t \in tasks /\ t.handler = "sync"
    /\ t.pc = "resp" /\ t.result = "ok" /\ t.i = Len(t.closure) /\ t.failed = <<>>
    /\ Cardinality(tasks') = Cardinality(tasks) - 1
    /\ Cardinality(Like(tasks', t)) = Cardinality(Like(tasks, t)) - 1
    /\ budget' = budget

DrainEffect(t) ==
    /\ pendingScans'[t.session] = <<>>
    /\ localStorage'[t.session] = <<>>
    /\ \A b \in Barcodes : QtyOf(t.ro_id, b)' = t.q0[b] + Count(t.closure, b)

FinalizeBlockedByPending ==
    [][\A r \in ro :
          r.status = "draft" /\ StatusOf(r.id)' = "finalized"
          => \A s \in DOMAIN view : view[s].id = r.id => localStorage[s] = <<>>]_vars

\* C5: once an order is finalized, no part row of it is created, changed or deleted.
FinalizedImmutable ==
    [][\A r \in ro : r.status = "finalized" => PartsOf(r.id)' = PartsOf(r.id)]_vars

\* C6: every order has at most one snapshot header.
OneSnapshot ==
    \A r \in ro : Cardinality(EntriesOf(r.id)) <= 1

\* C7: no snapshot of a finalized order has zero lines.
NoEmptySnapshot ==
    \A e \in ro_final_entries : LinesOf(e.id) # {}

\* C8: at the instant an order becomes finalized, the lines of the snapshot
\* created are exactly the (barcode, quantity) of its live parts.
SnapshotExact ==
    [][\A r \in ro :
          r.status = "draft" /\ StatusOf(r.id)' = "finalized"
          => \A e \in EntriesOf(r.id)' : LinesOf(e.id)' = LiveLines(r.id)']_vars

\* C9: once a snapshot exists, no step removes its header or changes, adds or
\* removes a line of it.
SnapshotFrozen ==
    [][\A e \in ro_final_entries :
          e \in ro_final_entries' /\ LinesOf(e.id)' = LinesOf(e.id)]_vars

\* C9 witness: a snapshot exists, the order was finalized a second time afterwards
\* and its live parts differ from the first snapshot's lines
SnapshotFrozenWitness ==
    \E e \in ro_final_entries :
        /\ LinesOf(e.id) # {}
        /\ LinesOf(e.id) # LiveLines(e.ro_id)
        /\ \E f \in EntriesOf(e.ro_id) : f.id > e.id /\ LinesOf(f.id) # LinesOf(e.id)

FinalizeCalls == {t \in tasks : t.handler = "finalize"}

\* the step in which a finalizeRO call gets its success result
FinalizeSucceeds ==
    Cardinality({t \in FinalizeCalls : t.result = "ok"}')
        > Cardinality({t \in FinalizeCalls : t.result = "ok"})

\* C10: finalize is all-or-nothing. An order is finalized exactly when a snapshot
\* header exists for it; a header appears only together with its lines; the status
\* and the snapshot tables change in no step but the one in which a finalizeRO call
\* succeeds, and no other step of a finalizeRO call changes the parts.
FinalizeAllOrNothing ==
    /\ [](\A r \in ro : r.status = "finalized" <=> EntriesOf(r.id) # {})
    /\ [][/\ \A l \in ro_final_parts' \ ro_final_parts :
                \E e \in ro_final_entries' \ ro_final_entries : e.id = l.final_entry_id
          /\ ~FinalizeSucceeds => UNCHANGED <<ro, ro_final_entries, ro_final_parts>>
          /\ ~FinalizeSucceeds /\ FinalizeCalls' # FinalizeCalls
                => UNCHANGED ro_scanned_parts]_vars

\* C10 witness: a finalize_ro transaction failed after it had inserted its header
\* and copied lines, and the order is still a draft without a snapshot
FinalizeAllOrNothingWitness ==
    \E t \in tasks :
        /\ t.handler = "finalize" /\ t.result = "err" /\ t.entry /\ t.lines # {}
        /\ StatusOf(t.ro_id) = "draft" /\ EntriesOf(t.ro_id) = {}

\* the part rows of order roId for barcode b
RowsFor(roId, b) == {p \in PartsOf(roId) : p.barcode_value = b}

\* C11: repeat scan increments. When scanPart calls run one after the other, n
\* successful calls for barcode b on an order that had no part b leave exactly
\* one row for b and its quantity is n (no row when n = 0).
RepeatScanIncrements ==
    \A r \in ro, b \in Barcodes :
        /\ Cardinality(RowsFor(r.id, b)) = (IF written[b] > 0 THEN 1 ELSE 0)
        /\ QtyOf(r.id, b) = written[b]

\* C11 witness: three successful scans of one barcode, one row with quantity 3
RepeatScanIncrementsWitness ==
    \E r \in ro, b \in Barcodes :
        /\ written[b] = 3 /\ tasks = {}
        /\ \E p \in RowsFor(r.id, b) : p.quantity = 3

\* C12: atomic increment. With no edits or deletes, the quantity of a barcode
\* equals the number of scanPart calls for it that returned success, under every
\* interleaving of the calls.
AtomicIncrement ==
    \A r \in ro, b \in Barcodes : QtyOf(r.id, b) = written[b]

\* C13: unique (order, barcode). In every reachable state there is at most one
\* part row for each order and barcode, under any interleaving of scanPart,
\* updatePartQuantity and deletePart.
UniqueOrderBarcode ==
    \A r \in ro, b \in Barcodes : Cardinality(RowsFor(r.id, b)) <= 1

\* C13 witness: a scanPart call that found no row was refused by the unique
\* constraint, because a concurrent call had inserted the row in between
UniqueOrderBarcodeWitness ==
    \E t \in tasks :
        /\ t.handler = "scan" /\ t.pc = "resp" /\ t.result = "err"
        /\ budget.fail = MaxStoreErrors
        /\ Cardinality(RowsFor(t.ro_id, t.barcode)) = 1

\* the entries of a drain whose scanPart call did not return success
RECURSIVE FailedEntries(_, _)
FailedEntries(entries, outcomes) ==
    IF entries = <<>> THEN <<>>
    ELSE (IF Head(outcomes) = "ok" THEN <<>> ELSE <<Head(entries)>>)
             \o FailedEntries(Tail(entries), Tail(outcomes))

\* the step in which the handleSync invocation t returns
DrainEnds(t) ==
    /\ t \in tasks /\ t.handler = "sync"
    /\ Cardinality(tasks') = Cardinality(tasks) - 1
    /\ Cardinality(Like(tasks', t)) = Cardinality(Like(tasks, t)) - 1

\* the outcomes of all scanPart calls of the drain t, when it ends
FinalLog(t) == Append(t.log, IF budget'.fail < budget.fail THEN "threw" ELSE t.result)

\* C14: selective removal in a drain. While handleSync runs, one scanPart call has
\* been made for every entry before the current one, whatever its outcome; the
\* drain ends only after the last entry, and the queue it leaves (state and
\* localStorage) is exactly the subsequence of the drained entries whose call
\* returned an error or threw.
SelectiveRemoval ==
    /\ [](\A t \in tasks : t.handler = "sync" =>
              /\ t.i \in 1..Len(t.closure)
              /\ Len(t.log) = t.i - 1
              /\ t.barcode = t.closure[t.i])
    /\ [][\A t \in tasks : DrainEnds(t) =>
              /\ t.i = Len(t.closure)
              /\ pendingScans'[t.session] = FailedEntries(t.closure, FinalLog(t))
              /\ localStorage'[t.session] = FailedEntries(t.closure, FinalLog(t))]_vars

\* C14 witness: a drain of <<A1, B2>> in which A1 failed and B2 was committed has
\* ended; A1 alone is left in the queue
SelectiveRemovalWitness ==
    /\ tasks = {}
    /\ budget.sync < MaxSyncs
    /\ budget.scan = MaxSequentialScans - 2
    /\ budget.fail = MaxSequentialFailures - 3
    /\ queued = [b \in Barcodes |-> 1]
    /\ pendingScans["s1"] = <<"A1">> /\ localStorage["s1"] = <<"A1">>
    /\ QtyOf(OrderId, "A1") = 0 /\ QtyOf(OrderId, "B2") = 1

\* a scan is put in the queue: the queue that was current grows by that scan at its tail
AppendAtTail ==
    \A s \in DOMAIN view :
        queued' # queued =>
            \E b \in Barcodes :
                /\ queued' = Bump(queued, b)
                /\ pendingScans'[s] = Append(pendingScans[s], b)
                /\ localStorage'[s] = Append(localStorage[s], b)

\* handleSync takes the entries of the queue it captured from head to tail
DrainInOrder ==
    \A t \in tasks : t.handler = "sync" => t.barcode = t.closure[t.i]

\* a live scan is committed only after the scans that were waiting in the queue when
\* it was captured: each of their barcodes has been written for a queued scan
NoOvertake ==
    \A t \in tasks :
        t.handler = "scan" /\ t.applied =>
            \A k \in 1..Len(t.closure) : repaid[t.closure[k]] >= 1

\* C15: FIFO per order. A newly queued scan is appended at the tail of the queue,
\* a drain commits in queue order, and the scans of an order are committed in the
\* order they were captured.
FifoPerOrder ==
    /\ [][AppendAtTail]_vars
    /\ [](DrainInOrder /\ NoOvertake)

\* the scanPart requests of session s that are outstanding
CommitsInFlight(s) == {t \in tasks : t.session = s /\ t.handler \in {"scan", "sync"}}

\* C16: one commit in flight per order. At any time at most one scanPart request
\* of a session is outstanding, counting the entries of a drain and live scans.
OneCommitInFlight ==
    \A s \in DOMAIN view : Cardinality(CommitsInFlight(s)) <= 1

\* the step in which handleScan gets the result of the scanPart call t
ScanReturns(t) ==
    /\ t \in tasks /\ t.handler = "scan" /\ t.pc = "resp"
    /\ Cardinality(tasks') = Cardinality(tasks) - 1
    /\ Cardinality(Like(tasks', t)) = Cardinality(Like(tasks, t)) - 1
    /\ budget' = budget

\* C17: a commit on a non-draft order is rejected and has no effect. A scanPart
\* call made on a finalized order never gets past its status check, writes
\* nothing and returns an error; handleScan, given that error, leaves the
\* pending queue and the parts as they are.
RejectedOnFinalized ==
    /\ [](\A t \in tasks : t.late =>
              /\ t.pc \in {"status", "resp", "local_getRO", "local_resp"}
              /\ ~t.applied
              /\ t.pc \in {"resp", "local_resp"} => t.result = "err")
    /\ [][\A t \in tasks : ScanReturns(t) /\ t.late =>
              UNCHANGED <<pendingScans, localStorage, ro_scanned_parts>>]_vars

\* C17 witness: scanPart, called from a page that still showed the draft, has
\* returned its error for the finalized order
RejectedOnFinalizedWitness ==
    \E t \in tasks :
        /\ t.handler = "scan" /\ t.late /\ t.pc = "resp" /\ t.result = "err"
        /\ StatusOf(t.ro_id) = "finalized"

\* the step in which the scanPart call t of handleScan ends, whichever way
ScanEnds(t) ==
    /\ t \in tasks /\ t.handler = "scan"
    /\ Cardinality(tasks') = Cardinality(tasks) - 1
    /\ Cardinality(Like(tasks', t)) = Cardinality(Like(tasks, t)) - 1

\* C18: queueing is reserved for connectivity failures. A barcode is appended
\* to the pending queue only when its scanPart call failed to commit: never
\* when the record store had applied the commit and scanPart had returned
\* success.
QueuedOnlyUncommitted ==
    [][\A b \in Barcodes : queued'[b] > queued[b] =>
          \E t \in tasks : /\ ScanEnds(t) /\ t.barcode = b
                            /\ ~t.applied /\ t.result # "ok"]_vars

\* the scans of the scenario: A1 twice and B2 once, of which only B2 was queued
ScenarioScans ==
    /\ captured = [b \in Barcodes |-> IF b = "A1" THEN 2 ELSE 1]
    /\ queued = [b \in Barcodes |-> IF b = "A1" THEN 0 ELSE 1]

\* the lines {A1:2, B2:1}
ScenarioLines ==
    {[barcode_value |-> "A1", quantity |-> 2], [barcode_value |-> "B2", quantity |-> 1]}

\* C19: the end-to-end scenario on order R100. After A1 was scanned twice and
\* committed and B2 was scanned with the store unreachable, the parts are {A1:2}
\* and the queue holds B2; no finalizeRO call starts while the queue is not
\* empty; once the drain has committed B2 and the order is finalized, the queue
\* is empty and the one snapshot of the order is exactly {A1:2, B2:1}.
Scenario ==
    /\ [](\A s \in DOMAIN view :
            /\ ScenarioScans /\ tasks = {} /\ ~Finalized(OrderId)
               /\ written = [b \in Barcodes |-> IF b = "A1" THEN 2 ELSE 0]
               => /\ LiveLines(OrderId) = {[barcode_value |-> "A1", quantity |-> 2]}
                  /\ pendingScans[s] = <<"B2">>
            /\ ScenarioScans /\ tasks = {} /\ Finalized(OrderId)
               /\ written = [b \in Barcodes |-> IF b = "A1" THEN 2 ELSE 1]
               => /\ pendingScans[s] = <<>>
                  /\ Cardinality(EntriesOf(OrderId)) = 1
                  /\ \A e \in EntriesOf(OrderId) :
                        e.ro_number = RoNumber /\ LinesOf(e.id) = ScenarioLines)
    /\ [][\A s \in DOMAIN view : Len(pendingScans[s]) > 0 =>
              /\ FinalizeCalls' \subseteq FinalizeCalls
              /\ UNCHANGED <<ro, ro_final_entries, ro_final_parts>>]_vars

\* C19 witness: the scenario has run to its end, with one scan that failed, one
\* handleFinalize refused, one drain and one finalizeRO call
ScenarioWitness ==
    /\ ScenarioScans /\ tasks = {} /\ Finalized(OrderId)
    /\ written = [b \in Barcodes |-> IF b = "A1" THEN 2 ELSE 1]
    /\ budget.scan = MaxSequentialScans - 3
    /\ budget.fail = MaxSequentialFailures - 1
    /\ budget.sync = MaxSyncs - 1
    /\ budget.finalize = MaxFinalizes - 2
    /\ \A e \in EntriesOf(OrderId) : LinesOf(e.id) = ScenarioLines

\* C20: quantity is always at least 1. Every part row, in the networked store
\* and in the local store alike, has a quantity of 1 or more; an
\* updatePartQuantity call with a quantity below 1 changes no row.
QuantityAtLeastOne ==
    \A p \in ro_scanned_parts : p.quantity >= 1

\* the step in which the page of session s is reloaded
Remounts(s) ==
    /\ tasks' = tasks /\ budget' = budget
    /\ \A t \in tasks : t.session # s
    /\ view'[s] = CurrentView(view[s])

Unsettled == {t \in tasks : t.handler = "scan" /\ t.pc = "hung"}

Creates(t) ==
    /\ t \in tasks /\ t.pc \in {"create", "local_create"}
    /\ Cardinality(tasks') = Cardinality(tasks)
    /\ Cardinality(Like(tasks', t)) = Cardinality(Like(tasks, t)) - 1

\* the createRO call t has got this result
CreateGot(t, result) ==
    \E u \in tasks' :
        [u EXCEPT !.copy = 0] = [t EXCEPT !.copy = 0, !.pc = "created", !.result = result,
                                          !.applied = (result = "ok")]

\* C27: order numbers are unique and upper-cased. No two orders share a number,
\* every stored number is upper-case, a createRO call with a number that exists
\* already, in any letter case, returns "RO Number already exists" and creates
\* nothing, and a createRO call with an empty or whitespace-only number returns
\* an error and creates nothing.
UniqueUpperNumbers ==
    /\ [](\A r, q \in ro : r.ro_number = q.ro_number => r = q)
    /\ [](\A r \in ro : ToUpperCase(r.ro_number) = r.ro_number)
    /\ [][\A t \in tasks : Creates(t) =>
              /\ (\E r \in ro : r.ro_number = ToUpperCase(t.ro_number))
                    => ro' = ro /\ CreateGot(t, "RO Number already exists")
              /\ Trim(t.ro_number) = <<>>
                    => ro' = ro /\ ~CreateGot(t, "ok")]_vars

\* C28: finalize preconditions in the local variant. The status or the
\* finalized_at of an order changes only in a step taken on a draft order that
\* has at least one part: finalizeRO on an order without parts, or on a finalized
\* order, changes nothing.
LocalFinalizeGuarded ==
    [][\A r \in ro, q \in ro' :
          q.id = r.id /\ (q.status # r.status \/ q.finalized_at # r.finalized_at)
              => r.status = "draft" /\ PartsOf(r.id) # {}]_vars

\* the stages 1..k, in order
FirstStages(k) == [i \in 1..k |-> i]

\* the processFrame invocations that are awaiting a decode or ended last
SeenRuns == scanner.runs \cup {scanner.last}

\* the step in which the processFrame invocation r ends with this outcome
RunEnds(r, outcome) ==
    /\ r \in scanner.runs
    /\ scanner'.runs = scanner.runs \ {r}
    /\ scanner'.last.n = r.n /\ scanner'.last.outcome = outcome
    /\ scanner'.last.stage = r.stage /\ scanner'.last.tried = r.tried

\* C23: decode stage order and short-circuit. Every processFrame invocation has
\* attempted the stages Normal, Grayscale, Contrast, Threshold in this order, one
\* after the other, up to the stage it is at; onScan is called only in the step in
\* which an invocation ends at the stage that decoded, once, and the reported
\* stage is that stage; an invocation that had the canvas to itself found the
\* symbol at the first stage at which its frame is decodable, so a frame
\* decodable only at Threshold is found at Threshold after the three other stages.
StageOrder ==
    /\ [](\A r \in SeenRuns : r.tried = FirstStages(r.stage))
    /\ [](scanner.last.outcome = "found" /\ scanner.last.alone =>
              /\ scanner.last.stage \in scanner.last.frame
              /\ \A k \in 1..(scanner.last.stage - 1) : k \notin scanner.last.frame)
    /\ [][scanner'.onScans # scanner.onScans =>
              /\ scanner'.onScans = scanner.onScans + 1
              /\ \E r \in scanner.runs :
                    /\ RunEnds(r, "found")
                    /\ scanner'.debugInfo = StageName[r.stage]]_vars
    /\ [][\A r \in scanner.runs : RunEnds(r, "found") =>
              scanner'.onScans = scanner.onScans + 1]_vars

StageOrderWitness ==
    /\ scanner.last.outcome = "found" /\ scanner.last.alone
    /\ scanner.last.frame = {4} /\ scanner.last.tried = <<1, 2, 3, 4>>
    /\ scanner.debugInfo = "Threshold" /\ scanner.onScans = 1

\* the processFrame callbacks that are pending
PendingFrames(sc) == (IF sc.rafTracked THEN 1 ELSE 0) + sc.rafOther

\* C24: not-found is not an error. In the step in which a processFrame invocation
\* ends after all four stages failed, onScan is not called, the error and
\* isScanning are left as they were and one more processFrame callback is pending,
\* the one scanLoopRef names; and while the elements of that invocation are still
\* rendered, a callback is pending or an invocation is decoding.
NotFoundContinues ==
    /\ [][\A r \in scanner.runs : RunEnds(r, "notfound") =>
              /\ r.tried = <<1, 2, 3, 4>>
              /\ scanner'.onScans = scanner.onScans
              /\ scanner'.error = scanner.error
              /\ scanner'.isScanning = scanner.isScanning
              /\ scanner'.loopRef /\ scanner'.rafTracked
              /\ PendingFrames(scanner') = PendingFrames(scanner) + 1]_vars
    /\ [](scanner.shown /\ scanner.last.outcome = "notfound"
             /\ scanner.last.gen = scanner.gen
             => PendingFrames(scanner) > 0 \/ scanner.runs # {})

NotFoundContinuesWitness ==
    /\ scanner.last.outcome = "notfound" /\ scanner.last.frame = {}
    /\ scanner.last.tried = <<1, 2, 3, 4>>
    /\ scanner.isScanning /\ scanner.shown /\ scanner.rafTracked
    /\ scanner.onScans = 0 /\ scanner.error = ""

\* nothing of the Scanner is outstanding: no getUserMedia call, no metadata
\* event, no processFrame callback or invocation, no render
Settled ==
    /\ scanner.gum = 0 /\ scanner.meta = {}
    /\ PendingFrames(scanner) = 0 /\ scanner.runs = {}
    /\ scanner.mounted => scanner.isScanning = scanner.shown

\* C25: cancellation releases the camera. Once scanning is off or the Scanner is
\* unmounted and nothing of it is outstanding any more, a state that lasts until
\* the user starts the scanner again, no camera track is live.
CameraReleased ==
    Settled /\ ~scanner.shown => scanner.tracks = {}

\* the error banner is on screen: it is part of the scanning branch of the render
ErrorVisible ==
    scanner.mounted /\ scanner.shown /\ scanner.error # ""

\* the step in which a getUserMedia call rejects
CameraFails == scanner'.gum = scanner.gum - 1 /\ budget'.camera_fail # budget.camera_fail

\* C26: camera failure is a distinct, fatal error. In the step in which
\* getUserMedia rejects, the error "Camera access denied or failed." is recorded,
\* scanning is turned off, onScan is not called and no frame is scheduled; a frame
\* in which no symbol was found leaves the error as it was; and once the Scanner
\* has rendered the outcome of a camera failure, the error is on screen.
CameraFailureFatal ==
    /\ [][CameraFails =>
              /\ scanner'.error = CameraError /\ ~scanner'.isScanning
              /\ scanner'.onScans = scanner.onScans
              /\ PendingFrames(scanner') = PendingFrames(scanner)]_vars
    /\ [][\A r \in scanner.runs : RunEnds(r, "notfound") =>
              scanner'.error = scanner.error]_vars
    /\ [](scanner.failed /\ scanner.mounted /\ scanner.isScanning = scanner.shown
             => ErrorVisible)

\* C29: the loop continues after a hit while the parent keeps scanning on. When
\* the invocation that ended last found a symbol, the parent left isScanning on
\* and the same video and canvas are still rendered, a processFrame callback is
\* pending or an invocation is decoding.
LoopSurvivesHit ==
    scanner.keepOpen /\ scanner.isScanning /\ scanner.shown
        /\ scanner.last.outcome = "found" /\ scanner.last.gen = scanner.gen
        => PendingFrames(scanner) > 0 \/ scanner.runs # {}

\* C30: per-frame buffers are released. When no processFrame invocation is under
\* way, no OpenCV Mat is allocated: src and dst of every invocation that ended,
\* with a hit, without one or with an exception, were deleted.
MatsReleased ==
    scanner.runs = {} => scanner.mats = 0

\* C35: the lifecycle is one-way. In every step an order that is finalized stays
\* finalized and keeps its finalization timestamp, and an order whose status
\* changes goes from draft to finalized and gets its timestamp in that step.
LifecycleOneWay ==
    [][\A r \in ro, q \in ro' : q.id = r.id =>
          /\ r.status = "finalized" =>
                q.status = "finalized" /\ q.finalized_at = r.finalized_at
          /\ q.status # r.status =>
                r.status = "draft" /\ q.status = "finalized" /\ q.finalized_at # 0
          /\ q.status = "draft" => q.finalized_at = 0]_vars

\* everything the store and the pages hold for the order roId
DataOf(roId) ==
    [order |-> {r \in ro : r.id = roId},
     parts |-> PartsOf(roId),
     entries |-> EntriesOf(roId),
     lines |-> {l \in ro_final_parts : \E e \in EntriesOf(roId) : l.final_entry_id = e.id},
     pending |-> [s \in {x \in DOMAIN view : view[x].id = roId} |-> pendingScans[s]],
     stored |-> [s \in {x \in DOMAIN view : view[x].id = roId} |-> localStorage[s]]]

\* a handler invocation on the order roId takes a step
Acts(roId) ==
    \E t \in tasks :
        /\ t.ro_id = roId
        /\ Cardinality({x \in tasks' : [x EXCEPT !.copy = 0, !.alone = TRUE]
                                          = [t EXCEPT !.copy = 0, !.alone = TRUE]})
              < Cardinality({x \in tasks : [x EXCEPT !.copy = 0, !.alone = TRUE]
                                             = [t EXCEPT !.copy = 0, !.alone = TRUE]})

\* C34: order isolation. The parts, pending scans, status and snapshots of an
\* order change only in a step of a scanPart, handleSync or finalizeRO call made
\* on that order, and every line of a snapshot of an order is a part of that
\* order: the lines a finalizeRO call copies are the parts of its order at that
\* moment, and the lines of the snapshot it commits are the lines it copied.
OrderIsolation ==
    /\ [][\A r \in ro : DataOf(r.id)' # DataOf(r.id) => Acts(r.id)]_vars
    /\ [][\A t \in tasks, u \in tasks' :
              t.pc = "rpc_copy" /\ u.pc = "rpc_commit" /\ u.session = t.session
                  => u.ro_id = t.ro_id /\ u.lines = LiveLines(t.ro_id)]_vars
    /\ [][\A t \in tasks, h \in ro_final_entries' \ ro_final_entries :
              t.pc = "rpc_commit"
                  /\ ~(\E u \in tasks' : u.session = t.session /\ u.pc = "rpc_commit")
                  => h.ro_id = t.ro_id /\ LinesOf(h.id)' = t.lines]_vars
    /\ [](\A e \in ro_final_entries : \A l \in LinesOf(e.id) :
              \E p \in PartsOf(e.ro_id) : p.barcode_value = l.barcode_value)

\* C34 witness: one order is finalized with its snapshot while the other order,
\* still a draft, holds a part the first one lacks and has had its queue drained
OrderIsolationWitness ==
    \E a, b \in ro :
        /\ a.status = "finalized" /\ EntriesOf(a.id) # {}
        /\ b.status = "draft" /\ EntriesOf(b.id) = {}
        /\ \E p \in PartsOf(b.id) : \A q \in PartsOf(a.id) : q.barcode_value # p.barcode_value
        /\ \E c \in Barcodes : repaid[c] > 0

\* C36: the snapshot header matches its order. The order a snapshot header
\* refers to exists, and the header carries the number of that order.
HeaderMatchesOrder ==
    \A e \in ro_final_entries :
        \E r \in ro : r.id = e.ro_id /\ r.ro_number = e.ro_number

\* C31: no scan session on a finalized order. Whatever the store holds when the
\* page acts, handleScan of the local page makes no call of scanPart for an order
\* that is finalized at the moment of the call: `late` records that moment.
NoScanOnFinalized ==
    \A t \in tasks : t.handler = "local_scan" /\ t.session \in DOMAIN view => ~t.late

\* scanPart on the parts of the store: the row of (roId, barcode) gains one, or a
\* row with quantity 1 is created, and no other row changes
IncrementOrCreate(rows, roId, barcode, newId) ==
    IF \E p \in rows : p.ro_id = roId /\ p.barcode_value = barcode
    THEN {IF p.ro_id = roId /\ p.barcode_value = barcode
          THEN [p EXCEPT !.quantity = @ + 1] ELSE p : p \in rows}
    ELSE rows \cup {[id |-> newId, ro_id |-> roId, barcode_value |-> barcode,
                     quantity |-> 1]}

\* the step appends a call of handleScan made by the manual entry
ManualCall ==
    /\ Len(page'.calls) = Len(page.calls) + 1
    /\ page'.calls[Len(page'.calls)].via = "manual"

KeyEvent == page'.event.n = page.event.n + 1
MetInput == page'.event.tag \in {"INPUT", "TEXTAREA"}
CharKey == Len(page'.event.key) = 1

\* the step appends a call of handleScan made by the key listener
WedgeCall(buffer) ==
    /\ Len(page'.calls) = Len(page.calls) + 1
    /\ SubSeq(page'.calls, 1, Len(page.calls)) = page.calls
    /\ page'.calls[Len(page'.calls)].barcode = Join(buffer)
    /\ page'.calls[Len(page'.calls)].via = "wedge"

\* C33: keyboard-wedge buffer. With no input focused, Enter on a non-empty buffer
\* calls handleScan once with the buffered characters and empties the buffer, and
\* Enter on an empty buffer does nothing; a character more than 100 ms after the
\* previous buffered character restarts the buffer with that character alone, and
\* an earlier one is appended; a key event that meets an INPUT or TEXTAREA changes
\* neither the buffer nor the calls; and nothing else changes the buffer or makes
\* a call from it.
WedgeBuffer ==
    /\ [][KeyEvent /\ ~MetInput /\ page'.event.key = "Enter" =>
            IF page.scanBuffer # <<>>
            THEN WedgeCall(page.scanBuffer) /\ page'.scanBuffer = <<>>
            ELSE /\ page'.calls = page.calls /\ page'.scanBuffer = <<>>
                 /\ tasks' = tasks /\ UNCHANGED dbVars]_vars
    /\ [][KeyEvent /\ ~MetInput /\ CharKey =>
            /\ page'.scanBuffer =
                   IF page'.now - page.event.lastChar > 100
                   THEN <<page'.event.key>>
                   ELSE Append(page.scanBuffer, page'.event.key)
            /\ page'.calls = page.calls /\ tasks' = tasks]_vars
    /\ [][KeyEvent /\ MetInput =>
            /\ page'.scanBuffer = page.scanBuffer
            /\ page'.calls = page.calls /\ tasks' = tasks /\ UNCHANGED dbVars]_vars
    /\ [][~KeyEvent => page'.scanBuffer = page.scanBuffer /\ page'.calls = page.calls]_vars
    /\ [](\A i \in 1..Len(page.calls) : page.calls[i].via = "wedge")

\* C33 witness: three characters met no input, one of them was dropped as too
\* slow, and Enter committed the two that followed each other fast
WedgeBufferWitness ==
    /\ page.event.n = 4 /\ page.event.chars = 3 /\ page.event.key = "Enter"
    /\ page.scanBuffer = <<>>
    /\ page.calls = <<[barcode |-> "r1", via |-> "wedge", scanPart |-> TRUE]>>
    /\ \E p \in ro_scanned_parts : p.barcode_value = "r1" /\ p.quantity = 1

====
